---------------------------- MODULE Spec2Model ----------------------------
(***************************************************************************)
(* Model of the OCR-output reconciliation service                          *)
(* (mail_service_conos_seals): the batch pass of process_output_ocr over   *)
(* one staged folder, the ERP (1C / TSUP) HTTP client with its lookup      *)
(* cache, and the file transfer helper.                                    *)
(***************************************************************************)
EXTENDS Integers, Sequences, FiniteSets, TLC

VARIABLES
    enable_send_production_data, \* CONFIG.enable_send_production_data
    block_transfer,              \* transfer_files(block_transfer=...)
    fs,                          \* staged folder, error folder, success folder
    metadata,                    \* metadata.json of the staged folder, in memory
    pc,                          \* position of process_output_ocr
    idx,                         \* index of the current entry of metadata["files"]
    json_data,                   \* OCR document of the current file
    transaction_numbers,         \* result of the transaction lookup
    iter,                        \* the current / last per-file iteration
    tx_log,                      \* the transaction lookups of the step just taken
    cont_log,                    \* the container lookups of the step just taken
    cache,                       \* cache of cup_http_request (insertion ordered)
    cache_tsup,                  \* cache of tsup_http_request (insertion ordered)
    http_log,                    \* requests sent by the last ERP client call
    call,                        \* the last ERP client call and what it returned
    enable_success_notifications, \* CONFIG.enable_success_notifications
    root,                        \* the folders of CONFIG.OUT_OCR_FOLDER, where they are now
    folders_for_processing,      \* the folders the running pass found
    processed,                   \* the folders the running pass has taken up
    emails,                      \* calls of send_email for the current folder
    ocr,                         \* OCR documents of the staged folder known on disk
    file_paths,                  \* transfer_files: the paths still to be handled
    destination_folder,          \* transfer_files: the destination of the call
    file_operation,              \* transfer_files: "copy2", "copy" or "move"
    logged,                      \* transfer_files: logger.error calls of the call
    batch,                       \* calls of transfer_files the caller has yet to make
    pathname,                    \* sanitize_pathname: the argument name
    is_file,                     \* sanitize_pathname: the argument is_file
    max_length,                  \* sanitize_pathname: the argument max_length
    parent_path,                 \* sanitize_pathname: the names that exist in parent_path
    stem,                        \* sanitize_pathname: stem
    ext,                         \* sanitize_pathname: ext
    final_name,                  \* sanitize_pathname: final_name
    counter,                     \* sanitize_pathname: counter
    returned,                    \* sanitize_pathname: the names the calls returned
    event_detected,              \* FolderWatcher.event_detected
    last_event_time,             \* FolderWatcher.last_event_time
    is_processing,               \* FolderWatcher.is_processing
    last_callback_time,          \* monitor: last_callback_time
    current_time,                \* monitor: current_time
    clock,                       \* time.time(), in ticks
    observer_pc,                 \* position of the observer thread in on_any_event
    running,                     \* invocations of the callback that have not ended
    event_time,                  \* time.time() at the latest event on_any_event kept
    ignored_time,                \* time.time() at the latest event on_any_event ignored
    during,                      \* an event was kept while the callback was running
    callback_error,              \* the except clause of the latest round logged an error
    recipient_emails,            \* send_email: recipient_emails
    recipients,                  \* send_email: recipients
    enable_email_notification,   \* config.enable_email_notification
    max_retries,                 \* send_email: max_retries
    attempt,                     \* send_email: attempt
    smtp_log,                    \* the outcomes of the SMTP attempts of the call
    email_pc,                    \* position in send_email
    monitor_running,             \* EmailMonitor.running
    server,                      \* EmailMonitor.server
    responses,                   \* monitor: responses, as a truth value
    monitor_pc,                  \* position of the thread of EmailMonitor.monitor
    stop_pc,                     \* position of the main thread in EmailMonitor.stop
    after_stop,                  \* what monitor did to the server after stop returned
    metadata_file,               \* metadata.json of the staged folder, on disk
    finished,                    \* files that earlier passes over the folder have ended
    passes,                      \* passes that have taken up the folder
    origin,                      \* the lookup that stored each cached key
    lookups,                     \* lookups made through the cache wrappers
    heap,                        \* the dicts of a submit call, by address
    data_source,                 \* address of the caller's dict (the argument)
    local_data,                  \* address of the dict the callee works on (`data`)
    passed,                      \* value of the caller's dict when the call was made
    pending                      \* transaction numbers the POST loop has yet to send

vars == <<enable_send_production_data, block_transfer, fs, metadata, pc, idx,
          json_data, transaction_numbers, iter, tx_log, cont_log, cache,
          cache_tsup, http_log, call, enable_success_notifications, root,
          folders_for_processing, processed, emails, ocr, file_paths,
          destination_folder, file_operation, logged, batch, pathname, is_file,
          max_length, parent_path, stem, ext, final_name, counter, returned,
          event_detected, last_event_time, is_processing, last_callback_time,
          current_time, clock, observer_pc, running, event_time, ignored_time, during,
          callback_error, recipient_emails, recipients, enable_email_notification,
          max_retries, attempt, smtp_log, email_pc, monitor_running, server, responses,
          monitor_pc, stop_pc, after_stop, metadata_file, finished, passes,
          origin, lookups, heap, data_source, local_data, passed, pending>>

\* The state of the ERP client, and the state of process_output_ocr.
client_vars == <<cache, cache_tsup, http_log>>

\* The folder loop of process_output_ocr around the pass over one folder.
folder_vars == <<enable_success_notifications, root, folders_for_processing, processed,
                 emails>>

pass_vars == <<folder_vars, ocr>>

\* A call of transfer_files on its own.
transfer_vars == <<file_paths, destination_folder, file_operation, logged, batch>>

\* The helpers of src/src/utils.py and the folder watcher, when looked at on their own.
\* A call of sanitize_pathname on its own.
sanitize_vars == <<pathname, is_file, max_length, parent_path, stem, ext, final_name,
                   counter, returned>>

\* The folder watcher on its own.
event_vars == <<event_time, ignored_time, during, callback_error>>

watcher_vars == <<event_detected, last_event_time, is_processing, last_callback_time,
                  current_time, clock, observer_pc, running, event_vars>>

\* One folder over the passes that take it up.
repeat_vars == <<metadata_file, finished, passes>>

\* What is looked at on its own, apart from the helpers and the watcher.
\* The cache wrappers under lookups of every argument.
key_vars == <<origin, lookups>>

\* A submit call and the dicts it reads and writes.
copy_vars == <<heap, data_source, local_data, passed, pending>>

\* A call of send_email.
email_vars == <<recipient_emails, recipients, enable_email_notification, max_retries,
                attempt, smtp_log, email_pc>>

\* The email monitor and the main thread that stops it.
imap_vars == <<monitor_running, server, responses, monitor_pc, stop_pc, after_stop>>

late_vars == <<email_vars, imap_vars>>

extra_vars == <<repeat_vars, key_vars, copy_vars, late_vars>>

util_vars == <<transfer_vars, sanitize_vars, watcher_vars, extra_vars>>

engine_vars == <<enable_send_production_data, block_transfer, fs, metadata, pc, idx,
                 json_data, transaction_numbers, iter, tx_log, cont_log, pass_vars,
                 util_vars>>

\* No call of transfer_files is looked at on its own.
NoTransfer ==
    /\ file_paths = <<>>
    /\ destination_folder = "error"
    /\ file_operation = "copy2"
    /\ logged = <<>>
    /\ batch = 0

\* No call of sanitize_pathname is looked at on its own.
NoSanitize ==
    /\ pathname = <<>>
    /\ is_file = TRUE
    /\ max_length = 50
    /\ parent_path = {}
    /\ stem = <<>>
    /\ ext = <<>>
    /\ final_name = <<>>
    /\ counter = 1
    /\ returned = <<>>

\* No folder watcher is looked at.
NoWatcher ==
    /\ event_detected = FALSE
    /\ last_event_time = 0
    /\ is_processing = FALSE
    /\ last_callback_time = 0
    /\ current_time = 0
    /\ clock = 0
    /\ observer_pc = "idle"
    /\ running = 0
    /\ event_time = 0
    /\ ignored_time = 0
    /\ during = FALSE
    /\ callback_error = FALSE

\* No folder is followed over several passes.
NoRepeat ==
    /\ metadata_file = <<>>
    /\ finished = <<>>
    /\ passes = 0

\* No lookup is traced back to the call that stored it.
NoKeys ==
    /\ origin = <<>>
    /\ lookups = 0

\* No submit call is looked at with its dicts.
NoCopy ==
    /\ heap = <<>>
    /\ data_source = 0
    /\ local_data = 0
    /\ passed = <<>>
    /\ pending = <<>>

\* No email is being sent.
NoEmail ==
    /\ recipient_emails = <<>>
    /\ recipients = <<>>
    /\ enable_email_notification = FALSE
    /\ max_retries = 0
    /\ attempt = 0
    /\ smtp_log = <<>>
    /\ email_pc = "none"

\* No email monitor.
NoImap ==
    /\ monitor_running = FALSE
    /\ server = "None"
    /\ responses = FALSE
    /\ monitor_pc = "none"
    /\ stop_pc = "none"
    /\ after_stop = {}

NoLate == NoEmail /\ NoImap

NoExtra == NoRepeat /\ NoKeys /\ NoCopy /\ NoLate

NoUtil == NoTransfer /\ NoSanitize /\ NoWatcher /\ NoExtra

-----------------------------------------------------------------------------
(* Bounds of the model.                                                    *)

MaxFiles == 1

MaxContainers == 2

\* The attempts send_email is allowed, from none.
MaxRetries == 3

\* Ticks of the clock that are followed after the folder watcher starts.
MaxTime == 4

\* Length of the names handed to sanitize_pathname, and the largest of the small
\* max_length values tried next to the default.
MaxNameLen == 3

MaxLength == 3

\* Rounds of the loop of sanitize_pathname that are followed.
MaxCounter == 6

\* Paths handed to one call of transfer_files, and calls the caller makes.
MaxPaths == 2

MaxCalls == 2

\* Passes of process_output_ocr that take up the same folder.
MaxPasses == 2

\* Lookups made through the cache wrappers, starting from empty caches.
MaxLookups == 2

-----------------------------------------------------------------------------
(* Generic helpers.                                                        *)

BoundedSeq(S, n) == UNION {[1..k -> S] : k \in 0..n}

Last(s) == s[Len(s)]

Range(s) == {s[i] : i \in DOMAIN s}

RECURSIVE SelectSeqBy(_, _)
SelectSeqBy(s, keep) ==
    IF s = <<>> THEN <<>>
    ELSE IF Head(s) \in keep THEN <<Head(s)>> \o SelectSeqBy(Tail(s), keep)
         ELSE SelectSeqBy(Tail(s), keep)

\* A dict as a function: d[k] with a default for a missing key (defaultdict(list)).
Get(d, k) == IF k \in DOMAIN d THEN d[k] ELSE <<>>

Put(d, k, v) == [x \in DOMAIN d \cup {k} |-> IF x = k THEN v ELSE d[x]]

\* Strings the code takes apart are sequences of characters.
EndsWith(s, suffix) ==
    /\ Len(s) >= Len(suffix)
    /\ SubSeq(s, Len(s) - Len(suffix) + 1, Len(s)) = suffix

RemoveSuffix(s, suffix) ==
    IF suffix # <<>> /\ EndsWith(s, suffix)
    THEN SubSeq(s, 1, Len(s) - Len(suffix))
    ELSE s

RECURSIVE Join(_, _)
Join(parts, sep) ==
    IF parts = <<>> THEN <<>>
    ELSE IF Len(parts) = 1 THEN parts[1]
    ELSE parts[1] \o sep \o Join(Tail(parts), sep)

Whitespace == {" "}

\* str.strip()
RECURSIVE Strip(_)
Strip(s) ==
    IF s = <<>> THEN s
    ELSE IF Head(s) \in Whitespace THEN Strip(Tail(s))
    ELSE IF s[Len(s)] \in Whitespace THEN Strip(SubSeq(s, 1, Len(s) - 1))
    ELSE s

\* str.split()[0]: the characters up to the first whitespace.
RECURSIVE UpToWhitespace(_)
UpToWhitespace(s) ==
    IF s = <<>> \/ Head(s) \in Whitespace THEN <<>>
    ELSE <<Head(s)>> \o UpToWhitespace(Tail(s))

FirstWord(s) == UpToWhitespace(Strip(s))

-----------------------------------------------------------------------------
(* JSON values returned by the ERP: null, a list, or a dict.               *)

Null == [kind |-> "null", v |-> <<>>]

List(s) == [kind |-> "list", v |-> s]

Dict(s) == [kind |-> "dict", v |-> s]

\* Python truthiness of a JSON value.
Truthy(j) == j.kind # "null" /\ j.v # <<>>


-----------------------------------------------------------------------------
(* ERP HTTP client: src/src/utils_1c.py, src/src/utils_tsup.py.            *)
(* A client function is an operator of the script `outs` of what its HTTP  *)
(* exchanges do, in the order it makes them; with a script too short to    *)
(* finish, it is "waiting" for the next exchange.                          *)

KAPPA_URL == "http://kappa5.group.ru:81/ca/hs/interaction/"

LOCAL_URL == "http://10.10.0.10:81/ca/hs/interaction/"

HTTP_OK == 200

max_cache_size == 40

\* What one HTTP exchange can do: raise while sending or reading (a
\* requests.exceptions.RequestException, or any other exception), or answer with a
\* status code and a body that response.json() parses or not.
Answer(status, parses, body) ==
    [exc |-> "none", status |-> status, parses |-> parses, body |-> body]

Raise(exc) == [exc |-> exc, status |-> 0, parses |-> FALSE, body |-> Null]

Exchanges(bodies) ==
    {Answer(HTTP_OK, TRUE, b) : b \in bodies}
        \cup {Answer(HTTP_OK, FALSE, Null), Answer(HTTP_OK + 300, TRUE, Null),
              Raise("RequestException"), Raise("Exception")}

\* urls = [primary, secondary], the order chosen by the kappa flag.
Urls(kappa) ==
    << IF kappa THEN KAPPA_URL ELSE LOCAL_URL,
       IF kappa THEN LOCAL_URL ELSE KAPPA_URL >>

\* encode_func: base64.urlsafe_b64encode when encode is set, else the argument itself.
EncodeArg(arg, encode) == [b64 |-> encode, text |-> arg]

Request(method, url, function, args) ==
    [method |-> method, url |-> url, function |-> function, args |-> args]

Exchange(req, resp) == [req |-> req, resp |-> resp]

\* A lookup loop that would return the body of any 200 without parsing it.
GetSucceedsUnparsed(o) == o.exc = "none" /\ o.status = HTTP_OK

\* One GET of the lookup loop: the JSON is returned when the status is 200 and the
\* body parses; every other outcome (non-200, exception, unparseable body) goes on
\* to the next url.
GetSucceeds(o) == o.exc = "none" /\ o.status = HTTP_OK /\ o.parses

\* for url in urls: try ... requests.get ... return response.json(); falls off the
\* end of the loop (returns None) when no url succeeded.
RECURSIVE GetLoop(_, _, _, _, _)
GetLoop(urls, outs, function, args, log) ==
    IF urls = <<>> THEN [state |-> "returned", result |-> Null, log |-> log]
    ELSE IF outs = <<>> THEN [state |-> "waiting", result |-> Null, log |-> log]
    ELSE LET sent == Append(log, Exchange(Request("GET", Head(urls), function, args),
                                          Head(outs)))
         IN  IF GetSucceeds(Head(outs))
             THEN [state |-> "returned", result |-> Head(outs).body, log |-> sent]
             ELSE GetLoop(Tail(urls), Tail(outs), function, args, sent)

\* cup_http_request without its decorator.
CupHttpRequest(function, args, kappa, encode, outs) ==
    GetLoop(Urls(kappa), outs, function,
            [i \in DOMAIN args |-> EncodeArg(args[i], encode)], <<>>)

\* An argument of tsup_http_request: a string, or a tuple of strings.
Str(s) == [tuple |-> FALSE, parts |-> <<s>>]

Tuple(parts) == [tuple |-> TRUE, parts |-> parts]

TsupArgTruthy(arg) == IF arg.tuple THEN arg.parts # <<>> ELSE arg.parts[1] # <<>>

\* ",".join(arg) in the URL and "_".join(arg) in the cache key, or str(arg).
TsupArgText(arg, sep) == Join(arg.parts, sep)

\* tsup_http_request without its decorator: empty arguments are skipped.
TsupHttpRequest(function, args, kappa, encode, outs) ==
    LET used == SelectSeqBy(args, {a \in Range(args) : TsupArgTruthy(a)})
    IN  GetLoop(Urls(kappa), outs, function,
                [i \in DOMAIN used |->
                    EncodeArg(TsupArgText(used[i], <<",">>), encode)], <<>>)

\* A cache key that would leave the arguments out.
CacheKeyOfFunction(function, args) == function \o <<"_">>

\* The cache key: f"{function}_{'_'.join(args)}".
CacheKey(function, args) == function \o <<"_">> \o Join(args, <<"_">>)

TsupCacheKey(function, args) ==
    function \o <<"_">>
        \o Join([i \in DOMAIN args |-> TsupArgText(args[i], <<"_">>)], <<"_">>)

CacheHas(c, key) == \E i \in DOMAIN c : c[i].key = key

CacheGet(c, key) == LET i == CHOOSE i \in DOMAIN c : c[i].key = key IN c[i].value

\* A cache that stores and never evicts.
CachePutUnbounded(c, key, value) == Append(c, [key |-> key, value |-> value])

\* cache[key] = result; if len(cache) > max_cache_size: cache.pop(next(iter(cache))).
CachePut(c, key, value) ==
    LET put == Append(c, [key |-> key, value |-> value])
    IN  IF Len(put) > max_cache_size THEN Tail(put) ELSE put

\* The wrapper of cache_http_requests around the request `fresh`: a cached key is
\* answered from the cache, anything else is requested and then stored.
CacheHttpRequests(c, key, fresh) ==
    IF CacheHas(c, key)
    THEN [state |-> "returned", hit |-> TRUE, result |-> CacheGet(c, key),
          log |-> <<>>, cache |-> c]
    ELSE IF fresh.state = "waiting"
    THEN [state |-> "waiting", hit |-> FALSE, result |-> Null, log |-> fresh.log,
          cache |-> c]
    ELSE [state |-> "returned", hit |-> FALSE, result |-> fresh.result,
          log |-> fresh.log, cache |-> CachePut(c, key, fresh.result)]

\* A POST loop that takes any answer of an endpoint for a success.
RECURSIVE PostLoopAnyStatus(_, _, _, _)
PostLoopAnyStatus(urls, outs, function, log) ==
    IF urls = <<>> THEN [ret |-> "false", log |-> log, rest |-> outs]
    ELSE IF outs = <<>> THEN [ret |-> "waiting", log |-> log, rest |-> outs]
    ELSE LET o == Head(outs)
             sent == Append(log, Exchange(Request("POST", Head(urls), function, <<>>), o))
         IN  IF o.exc = "Exception"
             THEN [ret |-> "raise", log |-> sent, rest |-> Tail(outs)]
             ELSE IF o.exc = "none"
             THEN [ret |-> "true", log |-> sent, rest |-> Tail(outs)]
             ELSE PostLoopAnyStatus(Tail(urls), Tail(outs), function, sent)

\* The POST loop of one payload: True on the first 200; a RequestException goes on
\* to the next url; any other exception leaves the function.
RECURSIVE PostLoop(_, _, _, _)
PostLoop(urls, outs, function, log) ==
    IF urls = <<>> THEN [ret |-> "false", log |-> log, rest |-> outs]
    ELSE IF outs = <<>> THEN [ret |-> "waiting", log |-> log, rest |-> outs]
    ELSE LET o == Head(outs)
             sent == Append(log, Exchange(Request("POST", Head(urls), function, <<>>), o))
         IN  IF o.exc = "Exception"
             THEN [ret |-> "raise", log |-> sent, rest |-> Tail(outs)]
             ELSE IF o.exc = "none" /\ o.status = HTTP_OK
             THEN [ret |-> "true", log |-> sent, rest |-> Tail(outs)]
             ELSE PostLoop(Tail(urls), Tail(outs), function, sent)

\* send_production_data: one POST loop per transaction number; success_flag is set
\* by any transaction whose POST got a 200.
RECURSIVE SendProductionData(_, _, _, _, _)
SendProductionData(tns, kappa, outs, flag, log) ==
    IF tns = <<>>
    THEN [ret |-> IF flag THEN "true" ELSE "false", log |-> log, rest |-> outs]
    ELSE LET r == PostLoop(Urls(kappa), outs,
                           <<"SendProductionDataToTransaction">>, log)
         IN  IF r.ret \in {"raise", "waiting"} THEN r
             ELSE SendProductionData(Tail(tns), kappa, r.rest,
                                     flag \/ r.ret = "true", r.log)

SendMethodName ==
    {<<"SendProductionDataToTransaction">>, <<"SendDataToMonitoringImport2">>}

\* enrich_containers_with_provision_date asks the ERP only for
\* SendProductionDataToTransaction with transaction numbers and with containers
\* that carry an unloading date (`dated`).
EnrichmentLooksUp(function, payload) ==
    /\ function = <<"SendProductionDataToTransaction">>
    /\ payload.transaction_numbers # <<>>
    /\ payload.dated

EnrichmentFunction == <<"ContainersWithProductionRequisitesByTransactionNumber">>

\* send_data_to_tsup: no POST for an unknown function name; else the enrichment
\* (its cached lookup; a response that is no list of dicts raises in the
\* comprehension over response) and the POST loop.
SendDataToTsup(function, payload, kappa, apply, c, outs) ==
    LET urls == Urls(kappa)
        post == [awaits |-> "POST", cache |-> c]
    IN  IF function \notin SendMethodName
        THEN [ret |-> "false", log |-> <<>>, rest |-> outs] @@ post
        ELSE IF ~(apply /\ EnrichmentLooksUp(function, payload))
        THEN PostLoop(urls, outs, function, <<>>) @@ post
        ELSE LET args == <<Str(FirstWord(payload.transaction_numbers[1])),
                           Tuple(<<<<"R">>, <<"P">>>>)>>
                 got == CacheHttpRequests(
                            c, TsupCacheKey(EnrichmentFunction, args),
                            TsupHttpRequest(EnrichmentFunction, args, FALSE, TRUE, outs))
                 rest == SubSeq(outs, Len(got.log) + 1, Len(outs))
             IN  IF got.state = "waiting"
                 THEN [ret |-> "waiting", log |-> got.log, rest |-> <<>>,
                       awaits |-> "GET", cache |-> c]
                 ELSE IF Truthy(got.result) /\ got.result.kind # "list"
                 THEN [ret |-> "raise", log |-> got.log, rest |-> rest,
                       awaits |-> "POST", cache |-> got.cache]
                 ELSE PostLoop(urls, rest, function, got.log)
                          @@ [awaits |-> "POST", cache |-> got.cache]

-----------------------------------------------------------------------------
(* Filesystem and transfer_files: src/src/utils.py.                        *)

SourcePath(name) == [name |-> name, json |-> FALSE]

\* source_file.with_name(source_file.name + ".json")
JsonPath(name) == [name |-> name, json |-> TRUE]

\* A file in a destination folder: `copy` tells a copy from the file that was moved.
Entry(path, copy) == [path |-> path, copy |-> copy]

Has(dir, path) == \E e \in dir : e.path = path

\* file_operation(src_path, destination_folder / src_path.name): a file of that
\* name already in the destination is replaced.
Place(dir, path, copy) == {e \in dir : e.path # path} \cup {Entry(path, copy)}

\* transfer_files(file_paths, destination_folder, operation, block_transfer) with
\* the files taken from the staged folder.
RECURSIVE TransferLoop(_, _, _, _)
TransferLoop(f, paths, dest, operation) ==
    IF paths = <<>> THEN f
    ELSE LET p == Head(paths)
         IN  IF ~Has(f.staging, p)
             THEN TransferLoop(f, Tail(paths), dest, operation)
             ELSE TransferLoop(
                    [f EXCEPT ![dest] = Place(@, p, operation # "move"),
                              !.staging = IF operation = "move"
                                          THEN {e \in @ : e.path # p} ELSE @],
                    Tail(paths), dest, operation)

\* A transfer helper that would copy whatever operation is asked for.
TransferFilesCopying(f, paths, dest, operation, blocked) ==
    IF blocked THEN f
    ELSE TransferLoop([f EXCEPT !.made = @ \cup {dest}], paths, dest, "copy2")

TransferFiles(f, paths, dest, operation, blocked) ==
    IF blocked THEN f
    ELSE TransferLoop([f EXCEPT !.made = @ \cup {dest}], paths, dest, operation)

-----------------------------------------------------------------------------
(* Inputs of a pass of process_output_ocr.                                 *)

FileNames == <<"a.pdf", "b.pdf", "c.pdf", "d.pdf">>

SRV == <<"S", "R", "V">>

BillsOfLading == {<<>>, <<"X">>, <<"X">> \o SRV}

OcrCodes == {<<>>, <<"A">>, <<"B">>}

SealLists == {<<>>, <<"S1">>}

OcrContainers == [container : OcrCodes, seals : SealLists]

\* What read_json(json_file) can return; {} (an unreadable file) is the document
\* without bill of lading and containers.
OcrDocs ==
    [bill_of_lading : BillsOfLading,
     containers : BoundedSeq(OcrContainers, MaxContainers)]

NoDoc == [bill_of_lading |-> <<>>, containers |-> <<>>]

\* "AA-0095444 от 14.04.2025": a number, whitespace, a date.
T1 == <<"1", " ", "d">>

T2 == <<"2", " ", "d">>

TnBodies == {Null, List(<<>>), List(<<T1>>), List(<<T1, T2>>), Dict(<<T1>>)}

GcBodies ==
    {Null, List(<<>>), List(<<<<"C">>>>), List(<<<<" ", "A">>, <<"C">>>>),
     List(<<<<"A">>, <<"B", " ">>>>)}

TransactionFunction == <<"TransactionNumberFromBillOfLading">>

ContainerFunction == <<"GetTransportPositionNumberByTransactionNumber">>

\* What the undecorated cup_http_request can return for a function whose
\* endpoints answer with one of `bodies` (the arguments only shape the URL).
CupResults(function, encode, bodies) ==
    {CupHttpRequest(function, <<>>, FALSE, encode, <<o1, o2>>).result :
        o1 \in Exchanges(bodies), o2 \in Exchanges(bodies)}

TransactionAnswers == CupResults(TransactionFunction, TRUE, TnBodies)

ContainerAnswers == CupResults(ContainerFunction, FALSE, GcBodies)

\* What send_production_data can do for n transaction numbers.
SendResults ==
    [n \in 0..2 |->
        {SendProductionData([i \in 1..n |-> T1], FALSE, outs, FALSE, <<>>).ret :
            outs \in [1..(2 * n) -> Exchanges({Null})]}]

-----------------------------------------------------------------------------
(* process_output_ocr: src/src/process_output_ocr.py.                      *)

\* A message of the report: `kind` stands for its text, `containers` for the
\* container numbers format_json_data_to_mail lists under "loaded data" (the data
\* snapshot that follows some error texts is left out).
Msg(kind, containers) == [kind |-> kind, containers |-> containers]

Codes(containers) == [i \in DOMAIN containers |-> containers[i].container]

\* metadata["errors"][name].append(message)
AppendTo(m, field, name, message) ==
    [m EXCEPT ![field] = Put(@, name, Append(Get(@, name), message))]

\* files_to_transfer = [source_file, json_file]
FilesToTransfer(name) == <<SourcePath(name), JsonPath(name)>>

\* [cont for cont in containers if cont["container"] not in dropped]
RECURSIVE KeepContainers(_, _)
KeepContainers(containers, dropped) ==
    IF containers = <<>> THEN <<>>
    ELSE IF Head(containers).container \in dropped
         THEN KeepContainers(Tail(containers), dropped)
         ELSE <<Head(containers)>> \o KeepContainers(Tail(containers), dropped)

CurrentFile == metadata.files[idx]

NoIter ==
    [name |-> "", had_source |-> FALSE, had_json |-> FALSE, errors_before |-> 0,
     successes_before |-> 0, outcome |-> "none"]

NoPayload == [transaction_numbers |-> <<>>, dated |-> FALSE]

\* A call of a client function: its arguments, and what it did.
NoCall ==
    [fn |-> "none", function |-> <<>>, args |-> <<>>, payload |-> NoPayload,
     kappa |-> FALSE, encode |-> TRUE, apply |-> TRUE, awaits |-> "none",
     hit |-> FALSE, result |-> Null, ret |-> "none"]

\* The end of an iteration of the per-file loop (continue, or the end of the body).
EndIteration(it, outcome) ==
    /\ iter' = [it EXCEPT !.outcome = outcome]
    /\ idx' = idx + 1
    /\ pc' = "loop"
    /\ json_data' = NoDoc
    /\ transaction_numbers' = <<>>

\* An error path that would move the file pair without recording a message.
FailFileSilently(it, message) ==
    /\ metadata' = metadata
    /\ fs' = TransferFiles(fs, FilesToTransfer(it.name), "error", "move", block_transfer)
    /\ EndIteration(it, "ERROR")

\* An error that ends the file: the message is recorded, the file pair is moved to
\* the error folder, and the loop continues with the next file.
FailFile(it, message) ==
    /\ metadata' = AppendTo(metadata, "errors", it.name, message)
    /\ fs' = TransferFiles(fs, FilesToTransfer(it.name), "error", "move", block_transfer)
    /\ EndIteration(it, "ERROR")

\* A partial error that would move the file pair instead of copying it.
DegradeFileMoving(it, message) ==
    /\ metadata' = AppendTo(metadata, "errors", it.name, message)
    /\ fs' = TransferFiles(fs, FilesToTransfer(it.name), "error", "move", block_transfer)

\* An error the file survives (lines 446-456, 539-552): the message is recorded
\* and the file pair is copied to the error folder.
DegradeFile(it, message) ==
    /\ metadata' = AppendTo(metadata, "errors", it.name, message)
    /\ fs' = TransferFiles(fs, FilesToTransfer(it.name), "error", "copy2", block_transfer)

\* The folder-level `except Exception`: the pass leaves this folder as it is.
RaiseInFolder ==
    /\ pc' = "exception"
    /\ iter' = [iter EXCEPT !.outcome = "EXCEPTION"]
    /\ UNCHANGED <<metadata, fs, idx, json_data, transaction_numbers>>

\* A check that would accept any metadata.json.
MalformedNever(m) == FALSE

\* Lines 346-359 for a metadata.json that read_json returned as a dict: it is
\* empty (or was unreadable), or one of the required fields is missing or of
\* another type than expected.
Malformed(m) == ~m.well_formed

\* Lines 335-382: metadata.json is read and checked; a malformed metadata.json or
\* an empty file list sends the whole folder to the error folder. A metadata.json
\* whose JSON is no object (a list, a string, a number, null) raises in
\* metadata.get or in metadata["GLOBAL_ERROR"] = ..., before anything is written.
StartFolder ==
    /\ pc = "start"
    /\ IF ~metadata.is_dict
       THEN /\ pc' = "exception"
            /\ UNCHANGED <<metadata, fs>>
       ELSE IF Malformed(metadata) \/ metadata.files = <<>>
       THEN /\ metadata' = [metadata EXCEPT !.global_error = TRUE]
            /\ fs' = [fs EXCEPT !.folder = "error"]
            /\ pc' = "next_folder"
       ELSE /\ pc' = "loop"
            /\ UNCHANGED <<metadata, fs>>
    /\ tx_log' = <<>>
    /\ cont_log' = <<>>
    /\ call' = NoCall
    /\ UNCHANGED <<util_vars, enable_send_production_data, block_transfer, idx, json_data,
                   transaction_numbers, iter, client_vars, pass_vars>>

\* read_json(json_file) of line 406: the document on disk when the documents of
\* the folder are known, any document of the OCR stage otherwise.
ReadJson(name) == IF name \in DOMAIN ocr THEN {ocr[name]} ELSE OcrDocs

\* A load that would keep the containers without a number.
ContainersUnfiltered(doc) == doc.containers

\* json_data["containers"] of lines 417-420: the containers that have a number.
ContainersWithNumber(doc) ==
    IF doc.containers # <<>> THEN KeepContainers(doc.containers, {<<>>}) ELSE <<>>

\* Lines 431-434: the numbers of the containers without seals.
ContainersWithEmptySeals(containers) ==
    {containers[i].container :
        i \in {j \in DOMAIN containers : containers[j].seals = <<>>}}

\* Lines 384-456: the files are looked for, the OCR document is read and its bill
\* of lading, containers and seals are checked.
LoadFile ==
    /\ pc = "loop"
    /\ idx <= Len(metadata.files)
    /\ LET name == CurrentFile
           it == [name |-> name,
                  had_source |-> Has(fs.staging, SourcePath(name)),
                  had_json |-> Has(fs.staging, JsonPath(name)),
                  errors_before |-> Len(Get(metadata.errors, name)),
                  successes_before |-> Len(Get(metadata.successes, name)),
                  outcome |-> "running"]
       IN  IF ~Has(fs.staging, SourcePath(name))
           THEN FailFile(it, Msg("source file missing", <<>>))
           ELSE IF ~Has(fs.staging, JsonPath(name))
           THEN FailFile(it, Msg("json file missing", <<>>))
           ELSE \E doc \in ReadJson(name) :
                LET containers == ContainersWithNumber(doc)
                    containers_with_empty_seals == ContainersWithEmptySeals(containers)
                IN  IF doc.bill_of_lading = <<>>
                    THEN FailFile(it, Msg("bill of lading missing", <<>>))
                    ELSE IF containers = <<>>
                    THEN FailFile(it, Msg("containers missing", <<>>))
                    ELSE IF Cardinality(containers_with_empty_seals) = Len(containers)
                    THEN FailFile(it, Msg("seals missing for all containers", <<>>))
                    ELSE /\ IF containers_with_empty_seals # {}
                            THEN DegradeFile(it, Msg("seals missing for some containers",
                                                     <<>>))
                            ELSE UNCHANGED <<metadata, fs>>
                         /\ json_data' =
                                [bill_of_lading |-> doc.bill_of_lading,
                                 containers |-> KeepContainers(
                                     containers, containers_with_empty_seals)]
                         /\ iter' = it
                         /\ pc' = "transaction"
                         /\ UNCHANGED <<idx, transaction_numbers>>
    /\ tx_log' = <<>>
    /\ cont_log' = <<>>
    /\ call' = NoCall
    /\ UNCHANGED <<util_vars, enable_send_production_data, block_transfer, client_vars, pass_vars>>

Looked(arg, result) == [arg |-> arg, result |-> result]

\* A lookup that would retry on any empty answer, whatever the bill of lading
\* ends with.
LookupTransactionsAnySuffix(bill, answers) ==
    IF ~Truthy(answers[1])
    THEN [log |-> <<Looked(bill, answers[1]),
                    Looked(RemoveSuffix(bill, SRV), answers[2])>>,
          result |-> answers[2],
          bill_of_lading |-> RemoveSuffix(bill, SRV)]
    ELSE [log |-> <<Looked(bill, answers[1])>>,
          result |-> answers[1],
          bill_of_lading |-> bill]

\* Lines 460-470: the lookup by the bill of lading and, when it found nothing and
\* the bill of lading ends with SRV, the lookup without the suffix. `answers` are
\* what cup_http_request returns for the first and for the second lookup.
LookupTransactions(bill, answers) ==
    IF ~Truthy(answers[1]) /\ EndsWith(bill, SRV)
    THEN [log |-> <<Looked(bill, answers[1]),
                    Looked(RemoveSuffix(bill, SRV), answers[2])>>,
          result |-> answers[2],
          bill_of_lading |-> RemoveSuffix(bill, SRV)]
    ELSE [log |-> <<Looked(bill, answers[1])>>,
          result |-> answers[1],
          bill_of_lading |-> bill]

\* write_json(json_file, json_data) of line 490, when the documents on disk are
\* followed: the file of the document is overwritten with the data in memory.
WriteJson(disk, name, data) ==
    IF name \in DOMAIN disk THEN [disk EXCEPT ![name] = data] ELSE disk

\* Lines 458-490: the transaction numbers are looked up; without a list of numbers
\* the file fails, else update_json and write_json record them.
TransactionLookup ==
    /\ pc = "transaction"
    /\ \E answers \in [1..2 -> TransactionAnswers] :
       LET got == LookupTransactions(json_data.bill_of_lading, answers)
       IN  /\ tx_log' = got.log
           /\ IF ~(Truthy(got.result) /\ got.result.kind = "list")
              THEN /\ FailFile(iter, Msg("transaction number not found", <<>>))
                   /\ ocr' = ocr
              ELSE /\ transaction_numbers' = got.result.v
                   /\ json_data' = [json_data EXCEPT
                                        !.bill_of_lading = got.bill_of_lading]
                   /\ ocr' = WriteJson(ocr, iter.name, json_data')
                   /\ pc' = "containers"
                   /\ UNCHANGED <<metadata, fs, iter, idx>>
    /\ cont_log' = <<>>
    /\ call' = NoCall
    /\ UNCHANGED <<util_vars, enable_send_production_data, block_transfer, client_vars,
                   folder_vars>>

\* Lines 493-502: one container lookup per transaction number (by its first word);
\* `answers[i]` is what cup_http_request returns for the i-th. Iterating over None
\* raises TypeError and ends the comprehension.
RECURSIVE LookupContainers(_, _, _)
LookupContainers(tns, answers, results) ==
    IF tns = <<>> THEN [results |-> results, raised |-> FALSE]
    ELSE LET looked == Append(results, Looked(FirstWord(Head(tns)), Head(answers)))
         IN  IF Head(answers).kind = "null"
             THEN [results |-> looked, raised |-> TRUE]
             ELSE LookupContainers(Tail(tns), Tail(answers), looked)

\* {x for sublist in container_numbers_cup for x in sublist}, each number stripped.
ContainerNumbersCupSet(results) ==
    UNION {{Strip(results[i].result.v[j]) : j \in DOMAIN results[i].result.v} :
              i \in DOMAIN results}

\* {cont.get("container") for cont in json_data.get("containers")}
ContainerNumbersOcrSet(containers) == Range(Codes(containers))

\* A reconciliation that would keep every OCR container.
ReconciledKeepingAll(containers, cup_set) == containers

\* Lines 549-552: the containers whose number the ERP knows are kept.
Reconciled(containers, cup_set) ==
    KeepContainers(containers, ContainerNumbersOcrSet(containers) \ cup_set)

\* Lines 492-552: the container numbers of every transaction are looked up and
\* compared with the OCR containers.
ContainerLookup ==
    /\ pc = "containers"
    /\ \E answers \in [DOMAIN transaction_numbers -> ContainerAnswers] :
       LET got == LookupContainers(transaction_numbers, answers, <<>>)
           cup_set == ContainerNumbersCupSet(got.results)
           ocr_set == ContainerNumbersOcrSet(json_data.containers)
           missing_containers == ocr_set \ cup_set
       IN  /\ cont_log' = got.results
           /\ IF got.raised THEN RaiseInFolder
              ELSE IF \A i \in DOMAIN got.results : got.results[i].result.v = <<>>
              THEN FailFile(iter, Msg("container numbers not found", <<>>))
              ELSE IF cup_set \cap ocr_set = {}
              THEN FailFile(iter, Msg("container numbers do not match", <<>>))
              ELSE /\ IF missing_containers # {}
                      THEN DegradeFile(iter, Msg("some containers not in ERP", <<>>))
                      ELSE UNCHANGED <<metadata, fs>>
                   /\ json_data' = [json_data EXCEPT
                          !.containers = Reconciled(json_data.containers, cup_set)]
                   /\ pc' = "submit"
                   /\ UNCHANGED <<iter, idx, transaction_numbers>>
    /\ tx_log' = <<>>
    /\ call' = NoCall
    /\ UNCHANGED <<util_vars, enable_send_production_data, block_transfer, client_vars, pass_vars>>

\* A gate that would ignore what send_production_data returned.
SubmitGateOpen(enabled, ret) == IF enabled /\ ret = "raise" THEN "raise" ELSE "sent"

\* The gate of lines 555-556: "sent" when the data may be recorded as loaded,
\* "failed" when send_production_data returned False, "raise" when it raised.
SubmitGate(enabled, ret) ==
    IF ~enabled THEN "sent"
    ELSE IF ret = "true" THEN "sent"
    ELSE IF ret = "false" THEN "failed"
    ELSE "raise"

\* Lines 574-578: the success message is recorded and the file pair is moved to
\* the success folder.
SucceedFile(it, message) ==
    /\ metadata' = AppendTo(metadata, "successes", it.name, message)
    /\ fs' = TransferFiles(fs, FilesToTransfer(it.name), "success", "move",
                           block_transfer)
    /\ EndIteration(it, "SUCCESS")

\* Lines 554-581: the data are sent to the ERP when the setting allows it; the
\* file is then recorded as a success.
Submit ==
    /\ pc = "submit"
    /\ \E ret \in IF enable_send_production_data
                  THEN SendResults[Len(transaction_numbers)] ELSE {"none"} :
       LET gate == SubmitGate(enable_send_production_data, ret)
       IN  /\ call' = IF enable_send_production_data
                      THEN [NoCall EXCEPT !.fn = "send_production_data", !.ret = ret]
                      ELSE NoCall
           /\ IF gate = "raise" THEN RaiseInFolder
              ELSE IF gate = "failed"
              THEN FailFile(iter, Msg("data not loaded", <<>>))
              ELSE SucceedFile(iter, Msg("loaded", Codes(json_data.containers)))
    /\ tx_log' = <<>>
    /\ cont_log' = <<>>
    /\ UNCHANGED <<util_vars, enable_send_production_data, block_transfer, client_vars, pass_vars>>

\* [filename for filename in metadata["errors"] if filename in metadata["successes"]]
PartialSuccessesFiles(m) == DOMAIN m.errors \cap DOMAIN m.successes

\* A post-pass that would merge the messages but leave the errors where they were.
ReclassifyKeepingErrors(m) ==
    LET partial == PartialSuccessesFiles(m)
    IN  [m EXCEPT
            !.partial_successes =
                [x \in DOMAIN @ \cup partial |->
                    IF x \in partial THEN m.errors[x] \o m.successes[x] ELSE @[x]],
            !.successes = [x \in DOMAIN @ \ partial |-> @[x]]]

\* Lines 590-595: errors and successes of a partial file are merged into
\* partial_successes and removed from where they were.
Reclassify(m) ==
    LET partial == PartialSuccessesFiles(m)
    IN  [m EXCEPT
            !.partial_successes =
                [x \in DOMAIN @ \cup partial |->
                    IF x \in partial THEN m.errors[x] \o m.successes[x] ELSE @[x]],
            !.errors = [x \in DOMAIN @ \ partial |-> @[x]],
            !.successes = [x \in DOMAIN @ \ partial |-> @[x]]]

\* Lines 583-598: the post-pass over the per-file messages, after the last file.
PostPass ==
    /\ pc = "loop"
    /\ idx > Len(metadata.files)
    /\ metadata' = Reclassify(metadata)
    /\ pc' = "report"
    /\ tx_log' = <<>>
    /\ cont_log' = <<>>
    /\ call' = NoCall
    /\ UNCHANGED <<util_vars, enable_send_production_data, block_transfer, fs, idx, json_data,
                   transaction_numbers, iter, client_vars, pass_vars>>

-----------------------------------------------------------------------------
(* The pass over one staged folder.                                        *)

EmptyDict == [x \in {} |-> <<>>]

\* The folders of the staging root.
Folders == {"f1", "f2"}

\* A folder of the staging root: where it is now, whether metadata.json is a file
\* in it, and how the last pass over it ended.
Staged(metadata_json) ==
    [where |-> "staging", metadata_json |-> metadata_json, outcome |-> "new"]

\* The pass over one folder on its own: the folder loop has taken up "f1".
OneFolder ==
    /\ enable_success_notifications = TRUE
    /\ root = [f \in Folders |-> Staged(f = "f1")]
    /\ folders_for_processing = <<"f1">>
    /\ processed = <<"f1">>
    /\ emails = 0
    /\ ocr = EmptyDict

\* No pass is running.
NoFolder ==
    /\ enable_success_notifications = TRUE
    /\ root = [f \in Folders |-> Staged(FALSE)]
    /\ folders_for_processing = <<>>
    /\ processed = <<>>
    /\ emails = 0
    /\ ocr = EmptyDict

\* Maps a collaborator may have written before the pass.
SeededMaps ==
    {EmptyDict, [x \in {FileNames[1]} |-> <<Msg("earlier stage", <<>>)>>]}

\* The attachments of one message are saved under names that differ.
FileLists == {SubSeq(FileNames, 1, n) : n \in 0..MaxFiles}

\* What read_json(metadata_file) can return: a dict (is_dict) with all required
\* fields of the expected types (well_formed) or not, or JSON that is no object.
MetadataFiles ==
    {m \in [is_dict : BOOLEAN, well_formed : BOOLEAN, files : FileLists,
            errors : SeededMaps, partial_successes : {EmptyDict},
            successes : {EmptyDict}, global_error : {FALSE}] :
        ~m.is_dict => (~m.well_formed /\ m.files = <<>> /\ m.errors = EmptyDict)}

StagedPaths(files) ==
    {SourcePath(n) : n \in Range(files)} \cup {JsonPath(n) : n \in Range(files)}

Init ==
    /\ enable_send_production_data \in BOOLEAN
    /\ block_transfer \in BOOLEAN
    /\ metadata \in MetadataFiles
    /\ \E present \in SUBSET StagedPaths(metadata.files) :
          fs = [folder |-> "staging",
                staging |-> {Entry(p, FALSE) : p \in present},
                error |-> {}, success |-> {}, made |-> {}]
    /\ pc = "start"
    /\ idx = 1
    /\ json_data = NoDoc
    /\ transaction_numbers = <<>>
    /\ iter = NoIter
    /\ tx_log = <<>>
    /\ cont_log = <<>>
    /\ cache = <<>>
    /\ cache_tsup = <<>>
    /\ http_log = <<>>
    /\ call = NoCall
    /\ OneFolder
    /\ NoUtil

Next ==
    \/ StartFolder
    \/ LoadFile
    \/ TransactionLookup
    \/ ContainerLookup
    \/ Submit
    \/ PostPass

Spec == Init /\ [][Next]_vars

-----------------------------------------------------------------------------
(* The folder loop of process_output_ocr: the scan of the staging root,    *)
(* the folders one after the other, the report and the cleanup.            *)

\* metadata_file = folder / "metadata.json"
MetadataPath == [name |-> "metadata.json", json |-> FALSE]

\* Documents of the OCR stage that lead a file to each of its outcomes.
PassDocs ==
    {NoDoc,
     [bill_of_lading |-> <<"X">>,
      containers |-> <<[container |-> <<"A">>, seals |-> <<"S1">>]>>],
     [bill_of_lading |-> <<"X">>,
      containers |-> <<[container |-> <<"A">>, seals |-> <<"S1">>],
                       [container |-> <<"B">>, seals |-> <<"S1">>]>>]}

\* A folder as the pass finds it: metadata.json, some of the listed files and of
\* their OCR documents.
StagedFolders ==
    UNION {{[metadata |-> m,
             staging |-> {Entry(q, FALSE) : q \in present \cup {MetadataPath}},
             ocr |-> [n \in Range(m.files) |-> doc]] :
               present \in SUBSET StagedPaths(m.files), doc \in PassDocs} :
           m \in MetadataFiles}

NoMetadata ==
    [is_dict |-> TRUE, well_formed |-> TRUE, files |-> <<>>, errors |-> EmptyDict,
     partial_successes |-> EmptyDict, successes |-> EmptyDict, global_error |-> FALSE]

NoFs == [folder |-> "staging", staging |-> {}, error |-> {}, success |-> {}, made |-> {}]

\* The orders in which iterdir() can list the folders S.
Orders(S) ==
    {o \in BoundedSeq(S, Cardinality(S)) : Len(o) = Cardinality(S) /\ Range(o) = S}

\* Lines 319-331: the folders of the staging root that hold a metadata.json.
ScanStaging ==
    /\ pc = "idle"
    /\ \E order \in Orders({f \in Folders :
                                root[f].where = "staging" /\ root[f].metadata_json}) :
          /\ folders_for_processing' = order
          /\ pc' = IF order = <<>> THEN "idle" ELSE "folders"
    /\ processed' = <<>>
    /\ UNCHANGED <<util_vars, enable_send_production_data, block_transfer, fs, metadata, idx,
                   json_data, transaction_numbers, iter, tx_log, cont_log, client_vars,
                   call, enable_success_notifications, root, emails, ocr>>

\* A folder loop that an exception in one folder would end.
AfterFolderAborting(ended, rest) == IF ended = "exception" THEN <<>> ELSE rest

\* The folders the loop still takes up after a folder ended by `continue`, by the
\* end of the body or in `except Exception: continue`.
AfterFolder(ended, rest) == rest

\* How the pass leaves a folder.
Left(f, ended) ==
    [where |-> f.folder,
     metadata_json |-> Has(f.staging, MetadataPath),
     outcome |-> CASE ended = "done" -> "done"
                   [] ended = "exception" -> "exception"
                   [] OTHER -> "invalid"]

\* Lines 333-343 and 650-652: the loop leaves the folder it was at and takes up
\* the next one: metadata.json is read and the names of the error and success
\* folders are made (new, empty folders).
NextFolder ==
    /\ pc \in {"folders", "next_folder", "exception", "done"}
    /\ root' = IF pc = "folders" THEN root
               ELSE [root EXCEPT ![Last(processed)] = Left(fs, pc)]
    /\ LET rest == AfterFolder(pc, SubSeq(folders_for_processing, Len(processed) + 1,
                                          Len(folders_for_processing)))
       IN  IF rest = <<>>
           THEN /\ pc' = "idle"
                /\ metadata' = NoMetadata
                /\ fs' = NoFs
                /\ ocr' = EmptyDict
                /\ UNCHANGED processed
           ELSE /\ pc' = "start"
                /\ processed' = Append(processed, Head(rest))
                /\ \E d \in StagedFolders :
                      /\ metadata' = d.metadata
                      /\ fs' = [NoFs EXCEPT !.staging = d.staging]
                      /\ ocr' = d.ocr
    /\ idx' = 1
    /\ json_data' = NoDoc
    /\ transaction_numbers' = <<>>
    /\ iter' = NoIter
    /\ tx_log' = <<>>
    /\ cont_log' = <<>>
    /\ call' = NoCall
    /\ emails' = 0
    /\ UNCHANGED <<util_vars, enable_send_production_data, block_transfer, client_vars,
                   enable_success_notifications, folders_for_processing>>

\* A report that would not look at enable_success_notifications.
HasContentAnyMap(m, notify) ==
    DOMAIN m.errors # {} \/ DOMAIN m.partial_successes # {} \/ DOMAIN m.successes # {}

\* format_email_message returns a text (has_content) or "".
HasContent(m, notify) ==
    \/ DOMAIN m.errors # {}
    \/ DOMAIN m.partial_successes # {}
    \/ notify /\ DOMAIN m.successes # {}

\* Lines 600-620: the report is rendered and, if it is not empty, sent.
Report ==
    /\ pc = "report"
    /\ emails' = IF HasContent(metadata, enable_success_notifications)
                 THEN emails + 1 ELSE emails
    /\ pc' = "archive"
    /\ UNCHANGED <<util_vars, enable_send_production_data, block_transfer, fs, metadata, idx,
                   json_data, transaction_numbers, iter, tx_log, cont_log, client_vars,
                   call, enable_success_notifications, root, folders_for_processing,
                   processed, ocr>>

\* metadata_file.unlink() if metadata_file.exists()
Unlinked(f) == [f EXCEPT !.staging = {e \in @ : e.path # MetadataPath}]

\* Lines 622-636: metadata.json is copied to the error folder, moved to the
\* success folder, and what is left of it in the folder is deleted.
Archived(f, m, blocked) ==
    LET copied == IF DOMAIN m.errors # {} \/ DOMAIN m.partial_successes # {}
                  THEN TransferFiles(f, <<MetadataPath>>, "error", "copy2", blocked)
                  ELSE f
        moved == IF DOMAIN m.successes # {}
                 THEN TransferFiles(copied, <<MetadataPath>>, "success", "move", blocked)
                 ELSE copied
    IN  Unlinked(moved)

Archive ==
    /\ pc = "archive"
    /\ fs' = Archived(fs, metadata, block_transfer)
    /\ pc' = "cleanup"
    /\ UNCHANGED <<util_vars, enable_send_production_data, block_transfer, metadata, idx,
                   json_data, transaction_numbers, iter, tx_log, cont_log, client_vars,
                   call, pass_vars>>

\* A cleanup that would leave a folder that is not empty where it is.
CleanedIfEmpty(f) == [f EXCEPT !.folder = IF f.staging = {} THEN "deleted" ELSE @]

\* Lines 638-648: an empty folder is removed, any other is moved to
\* residual_files under the error folder.
Cleaned(f) == [f EXCEPT !.folder = IF f.staging = {} THEN "deleted" ELSE "residual"]

Cleanup ==
    /\ pc = "cleanup"
    /\ fs' = Cleaned(fs)
    /\ pc' = "done"
    /\ UNCHANGED <<util_vars, enable_send_production_data, block_transfer, metadata, idx,
                   json_data, transaction_numbers, iter, tx_log, cont_log, client_vars,
                   call, pass_vars>>

InitPass ==
    /\ enable_send_production_data \in BOOLEAN
    /\ block_transfer \in BOOLEAN
    /\ enable_success_notifications \in BOOLEAN
    /\ \E second \in BOOLEAN : root = [f \in Folders |-> Staged(f = "f1" \/ second)]
    /\ folders_for_processing = <<>>
    /\ processed = <<>>
    /\ emails = 0
    /\ ocr = EmptyDict
    /\ metadata = NoMetadata
    /\ fs = NoFs
    /\ pc = "idle"
    /\ idx = 1
    /\ json_data = NoDoc
    /\ transaction_numbers = <<>>
    /\ iter = NoIter
    /\ tx_log = <<>>
    /\ cont_log = <<>>
    /\ cache = <<>>
    /\ cache_tsup = <<>>
    /\ http_log = <<>>
    /\ call = NoCall
    /\ NoUtil

NextPass ==
    \/ ScanStaging
    \/ NextFolder
    \/ StartFolder
    \/ LoadFile
    \/ TransactionLookup
    \/ ContainerLookup
    \/ Submit
    \/ PostPass
    \/ Report
    \/ Archive
    \/ Cleanup

SpecPass == InitPass /\ [][NextPass]_vars

-----------------------------------------------------------------------------
(* The ERP client on its own: calls of its four functions, one HTTP        *)
(* exchange per step.                                                      *)

\* Bodies the endpoints answer a lookup with.
CupBodies == {Null, List(<<T1>>)}

TsupBodies == {Null, List(<<T1>>), Dict(<<T1>>)}

CupCalls ==
    {[function |-> TransactionFunction, args |-> << <<"X">> >>, encode |-> TRUE],
     [function |-> ContainerFunction, args |-> << <<"1">> >>, encode |-> FALSE]}

TsupCalls ==
    {[function |-> EnrichmentFunction,
      args |-> <<Str(<<"1">>), Tuple(<<<<"R">>, <<"P">>>>)>>, encode |-> TRUE]}

TsupPayloads == {NoPayload, [transaction_numbers |-> <<T1>>, dated |-> TRUE]}

\* What the endpoints answered so far in the call that is running.
Script(log) == [i \in DOMAIN log |-> log[i].resp]

\* The call `cl` run from caches c (cup_http_request) and ct (tsup_http_request)
\* against the script `outs`.
ClientRun(cl, c, ct, outs) ==
    CASE cl.fn = "cup_http_request" ->
            LET got == CacheHttpRequests(
                           c, CacheKey(cl.function, cl.args),
                           CupHttpRequest(cl.function, cl.args, cl.kappa, cl.encode, outs))
            IN  [ret |-> IF got.state = "waiting" THEN "waiting" ELSE "value",
                 awaits |-> "GET", hit |-> got.hit, result |-> got.result,
                 log |-> got.log, cache |-> got.cache, cache_tsup |-> ct]
      [] cl.fn = "tsup_http_request" ->
            LET got == CacheHttpRequests(
                           ct, TsupCacheKey(cl.function, cl.args),
                           TsupHttpRequest(cl.function, cl.args, cl.kappa, cl.encode, outs))
            IN  [ret |-> IF got.state = "waiting" THEN "waiting" ELSE "value",
                 awaits |-> "GET", hit |-> got.hit, result |-> got.result,
                 log |-> got.log, cache |-> c, cache_tsup |-> got.cache]
      [] cl.fn = "send_production_data" ->
            LET r == SendProductionData(cl.payload.transaction_numbers, cl.kappa, outs,
                                        FALSE, <<>>)
            IN  [ret |-> r.ret, awaits |-> "POST", hit |-> FALSE, result |-> Null,
                 log |-> r.log, cache |-> c, cache_tsup |-> ct]
      [] cl.fn = "send_data_to_tsup" ->
            LET r == SendDataToTsup(cl.function, cl.payload, cl.kappa, cl.apply, ct, outs)
            IN  [ret |-> r.ret, awaits |-> r.awaits, hit |-> FALSE, result |-> Null,
                 log |-> r.log, cache |-> c, cache_tsup |-> r.cache]

\* The call goes as far as the script allows: it returns (or raises), or waits for
\* the next exchange.
Advance(cl, outs) ==
    LET r == ClientRun(cl, cache, cache_tsup, outs)
    IN  /\ http_log' = r.log
        /\ IF r.ret = "waiting"
           THEN /\ call' = [cl EXCEPT !.ret = "running", !.awaits = r.awaits]
                /\ UNCHANGED <<cache, cache_tsup>>
           ELSE /\ call' = [cl EXCEPT !.ret = r.ret, !.awaits = "none",
                                      !.hit = r.hit, !.result = r.result]
                /\ cache' = r.cache
                /\ cache_tsup' = r.cache_tsup

Idle == pc = "client" /\ call.ret # "running"

CupLookup ==
    /\ Idle
    /\ \E q \in CupCalls, kappa \in BOOLEAN :
          Advance([NoCall EXCEPT !.fn = "cup_http_request", !.function = q.function,
                                 !.args = q.args, !.encode = q.encode,
                                 !.kappa = kappa], <<>>)
    /\ UNCHANGED engine_vars

TsupLookup ==
    /\ Idle
    /\ \E q \in TsupCalls, kappa \in BOOLEAN :
          Advance([NoCall EXCEPT !.fn = "tsup_http_request", !.function = q.function,
                                 !.args = q.args, !.encode = q.encode,
                                 !.kappa = kappa], <<>>)
    /\ UNCHANGED engine_vars

SendProduction ==
    /\ Idle
    /\ \E tns \in {<<>>, <<T1>>, <<T1, T2>>}, kappa \in BOOLEAN :
          Advance([NoCall EXCEPT !.fn = "send_production_data",
                                 !.payload = [transaction_numbers |-> tns,
                                              dated |-> FALSE],
                                 !.kappa = kappa], <<>>)
    /\ UNCHANGED engine_vars

SendTsup ==
    /\ Idle
    /\ \E function \in SendMethodName \cup {<<"Unknown">>}, payload \in TsupPayloads,
          kappa \in BOOLEAN, apply \in BOOLEAN :
          Advance([NoCall EXCEPT !.fn = "send_data_to_tsup", !.function = function,
                                 !.payload = payload, !.kappa = kappa,
                                 !.apply = apply], <<>>)
    /\ UNCHANGED engine_vars

\* requests.get / requests.post of the running call returns or raises.
HttpExchange ==
    /\ pc = "client"
    /\ call.ret = "running"
    /\ \E o \in Exchanges(IF call.awaits = "POST" THEN {Null}
                          ELSE IF call.fn = "cup_http_request" THEN CupBodies
                          ELSE TsupBodies) :
          Advance(call, Append(Script(http_log), o))
    /\ UNCHANGED engine_vars

InitErp ==
    /\ enable_send_production_data = FALSE
    /\ block_transfer = FALSE
    /\ metadata = [is_dict |-> TRUE, well_formed |-> TRUE, files |-> <<>>, errors |-> EmptyDict,
                   partial_successes |-> EmptyDict, successes |-> EmptyDict,
                   global_error |-> FALSE]
    /\ fs = [folder |-> "staging", staging |-> {}, error |-> {}, success |-> {},
             made |-> {}]
    /\ pc = "client"
    /\ idx = 1
    /\ json_data = NoDoc
    /\ transaction_numbers = <<>>
    /\ iter = NoIter
    /\ tx_log = <<>>
    /\ cont_log = <<>>
    /\ cache = <<>>
    /\ cache_tsup = <<>>
    /\ http_log = <<>>
    /\ call = NoCall
    /\ NoFolder
    /\ NoUtil

NextErp ==
    \/ CupLookup
    \/ TsupLookup
    \/ SendProduction
    \/ SendTsup
    \/ HttpExchange

SpecErp == InitErp /\ [][NextErp]_vars

-----------------------------------------------------------------------------
(* The lookup caches when they are nearly full: the client after n earlier *)
(* lookups of n different keys.                                            *)

\* The cache of cup_http_request after the container lookups of the transaction
\* numbers 1..n, in that order.
CupFilled(n) ==
    [i \in 1..n |->
        [key |-> CacheKey(ContainerFunction, << <<ToString(i)>> >>),
         value |-> List(<<T1>>)]]

\* The cache of tsup_http_request after the enrichment lookups of the transaction
\* numbers 2..n+1, in that order.
TsupFilled(n) ==
    [i \in 1..n |->
        [key |-> TsupCacheKey(EnrichmentFunction,
                              <<Str(<<ToString(i + 1)>>), Tuple(<<<<"R">>, <<"P">>>>)>>),
         value |-> List(<<T1>>)]]

InitCache ==
    /\ enable_send_production_data = FALSE
    /\ block_transfer = FALSE
    /\ metadata = [is_dict |-> TRUE, well_formed |-> TRUE, files |-> <<>>, errors |-> EmptyDict,
                   partial_successes |-> EmptyDict, successes |-> EmptyDict,
                   global_error |-> FALSE]
    /\ fs = [folder |-> "staging", staging |-> {}, error |-> {}, success |-> {},
             made |-> {}]
    /\ pc = "client"
    /\ idx = 1
    /\ json_data = NoDoc
    /\ transaction_numbers = <<>>
    /\ iter = NoIter
    /\ tx_log = <<>>
    /\ cont_log = <<>>
    /\ \E n \in {max_cache_size - 1, max_cache_size} :
          /\ cache = CupFilled(n)
          /\ cache_tsup = TsupFilled(n)
    /\ http_log = <<>>
    /\ call = NoCall
    /\ NoFolder
    /\ NoUtil

NextCache ==
    \/ CupLookup
    \/ TsupLookup
    \/ HttpExchange

SpecCache == InitCache /\ [][NextCache]_vars

-----------------------------------------------------------------------------
(* transfer_files step by step, with the errors the operating system can   *)
(* answer: src/src/utils.py:236-287. The caller is a loop that calls it    *)
(* once per iteration, as the per-file loop of process_output_ocr does.    *)

\* What the helpers and the watcher leave alone.
engine_idle == <<enable_send_production_data, metadata, idx, json_data,
                 transaction_numbers, iter, tx_log, cont_log, call, client_vars,
                 pass_vars, extra_vars>>

\* What the helpers leave alone.
idle_vars == <<engine_idle, watcher_vars>>

\* operation: Literal["copy2", "copy", "move"]
Operations == {"copy2", "copy", "move"}

\* How destination_folder.mkdir(parents=True, exist_ok=True) can end: the
\* directory is there, or the path is taken by a file, or a parent cannot be
\* written, or the operating system reports another error.
MkdirOutcomes == {"ok", "FileExistsError", "PermissionError", "OSError"}

\* How file_operation(src_path, new_path) can end.
OperationOutcomes == {"ok", "PermissionError", "shutil.Error", "OSError"}

\* file_paths of a call: the file pair of a document, in any order and number.
TransferArguments == BoundedSeq(StagedPaths(<<FileNames[1]>>), MaxPaths)

\* Lines 251-258: the caller calls transfer_files; a blocked call returns at once.
CallTransferFiles ==
    /\ pc = "caller"
    /\ batch > 0
    /\ \E paths \in TransferArguments, dest \in {"error", "success"},
          op \in Operations :
          /\ destination_folder' = dest
          /\ file_operation' = op
          /\ IF block_transfer
             THEN /\ file_paths' = <<>>
                  /\ pc' = "caller"
                  /\ batch' = batch - 1
             ELSE /\ file_paths' = paths
                  /\ pc' = "mkdir"
                  /\ batch' = batch
    /\ logged' = <<>>
    /\ UNCHANGED <<idle_vars, sanitize_vars, block_transfer, fs>>

\* Lines 260-264: the destination is created before the loop, outside any try; an
\* error of mkdir leaves transfer_files as an exception.
MakeDestination ==
    /\ pc = "mkdir"
    /\ \E outcome \in MkdirOutcomes :
          IF outcome = "ok"
          THEN /\ fs' = [fs EXCEPT !.made = @ \cup {destination_folder}]
               /\ pc' = "paths"
          ELSE /\ fs' = fs
               /\ pc' = "raised"
    /\ UNCHANGED <<idle_vars, sanitize_vars, block_transfer, transfer_vars>>

\* Lines 267-287, one iteration: a path that is no file is skipped; an error of
\* the operation is caught and logged, and the loop goes on with the next path.
TransferPath ==
    /\ pc = "paths"
    /\ file_paths # <<>>
    /\ LET src_path == Head(file_paths)
       IN  IF ~Has(fs.staging, src_path)
           THEN UNCHANGED <<fs, logged>>
           ELSE \E outcome \in OperationOutcomes :
                   IF outcome = "ok"
                   THEN /\ fs' = TransferLoop(fs, <<src_path>>, destination_folder,
                                              file_operation)
                        /\ logged' = logged
                   ELSE /\ fs' = fs
                        /\ logged' = Append(logged, outcome)
    /\ file_paths' = Tail(file_paths)
    /\ UNCHANGED <<idle_vars, sanitize_vars, block_transfer, pc, destination_folder,
                   file_operation, batch>>

\* The loop is over: transfer_files returns None and the caller goes on.
TransferReturn ==
    /\ pc = "paths"
    /\ file_paths = <<>>
    /\ pc' = "caller"
    /\ batch' = batch - 1
    /\ UNCHANGED <<idle_vars, sanitize_vars, block_transfer, fs, file_paths,
                   destination_folder, file_operation, logged>>

\* No pass, no client call.
NoEngine ==
    /\ enable_send_production_data = FALSE
    /\ metadata = NoMetadata
    /\ idx = 1
    /\ json_data = NoDoc
    /\ transaction_numbers = <<>>
    /\ iter = NoIter
    /\ tx_log = <<>>
    /\ cont_log = <<>>
    /\ cache = <<>>
    /\ cache_tsup = <<>>
    /\ http_log = <<>>
    /\ call = NoCall
    /\ NoFolder
    /\ NoExtra

InitTransfer ==
    /\ NoEngine
    /\ block_transfer \in BOOLEAN
    /\ \E present \in SUBSET StagedPaths(<<FileNames[1]>>) :
          fs = [folder |-> "staging",
                staging |-> {Entry(p, FALSE) : p \in present},
                error |-> {}, success |-> {}, made |-> {}]
    /\ pc = "caller"
    /\ file_paths = <<>>
    /\ destination_folder = "error"
    /\ file_operation = "copy2"
    /\ logged = <<>>
    /\ batch \in 1..MaxCalls
    /\ NoSanitize
    /\ NoWatcher

NextTransfer ==
    \/ CallTransferFiles
    \/ MakeDestination
    \/ TransferPath
    \/ TransferReturn

SpecTransfer == InitTransfer /\ [][NextTransfer]_vars

-----------------------------------------------------------------------------
(* sanitize_pathname: src/src/utils.py:154-233. Names are sequences of     *)
(* characters; parent_path is an existing directory, known by the names    *)
(* that exist in it.                                                       *)

\* [<>:"/\\|?*\x00-\x1F] without the control codes, which no name here contains.
IllegalChars == {"<", ">", ":", "\"", "/", "\\", "|", "?", "*"}

\* re.sub(r'[<>:"/\\|?*\x00-\x1F]', " ", name)
ReplaceIllegal(s) == [i \in DOMAIN s |-> IF s[i] \in IllegalChars THEN " " ELSE s[i]]

RECURSIVE SkipWhitespace(_)
SkipWhitespace(s) ==
    IF s # <<>> /\ Head(s) \in Whitespace THEN SkipWhitespace(Tail(s)) ELSE s

\* re.sub(r"\s+", "_", s): every run of whitespace becomes one underscore.
RECURSIVE CollapseWhitespace(_)
CollapseWhitespace(s) ==
    IF s = <<>> THEN <<>>
    ELSE IF Head(s) \in Whitespace
         THEN <<"_">> \o CollapseWhitespace(SkipWhitespace(s))
         ELSE <<Head(s)>> \o CollapseWhitespace(Tail(s))

\* Lines 185-187.
CleanName(s) == CollapseWhitespace(Strip(ReplaceIllegal(s)))

\* The letters of the names used here, for str.upper() and str.lower().
UpperCase == <<"A", "C", "M", "N", "O", "X">>

LowerCase == <<"a", "c", "m", "n", "o", "x">>

IndexIn(letters, c) == CHOOSE i \in DOMAIN letters : letters[i] = c

ToLower(s) ==
    [i \in DOMAIN s |-> IF s[i] \in Range(UpperCase)
                        THEN LowerCase[IndexIn(UpperCase, s[i])] ELSE s[i]]

ToUpper(s) ==
    [i \in DOMAIN s |-> IF s[i] \in Range(LowerCase)
                        THEN UpperCase[IndexIn(LowerCase, s[i])] ELSE s[i]]

\* Path(clean_name).name: the name holds no separator; "." is the empty path.
PathName(s) == IF s = <<".">> THEN <<>> ELSE s

\* PurePath.suffix: from the last dot on, when that dot is neither the first nor
\* the last character of the name.
PathSuffix(s) ==
    LET dots == {i \in DOMAIN s : s[i] = "."}
        last == CHOOSE i \in dots : \A j \in dots : j <= i
    IN  IF dots # {} /\ 1 < last /\ last < Len(s)
        THEN SubSeq(s, last, Len(s)) ELSE <<>>

\* PurePath.stem
PathStem(s) == SubSeq(s, 1, Len(s) - Len(PathSuffix(s)))

\* str.strip(".")
RECURSIVE StripDots(_)
StripDots(s) ==
    IF s = <<>> THEN s
    ELSE IF Head(s) = "." THEN StripDots(Tail(s))
    ELSE IF s[Len(s)] = "." THEN StripDots(SubSeq(s, 1, Len(s) - 1))
    ELSE s

\* s[:n] for n >= 0
Truncated(s, n) == SubSeq(s, 1, IF Len(s) < n THEN Len(s) ELSE n)

Digits == <<"0", "1", "2", "3", "4", "5", "6", "7", "8", "9">>

\* str(counter) of the f-string
RECURSIVE Decimal(_)
Decimal(n) ==
    IF n < 10 THEN <<Digits[n + 1]>>
    ELSE Decimal(n \div 10) \o <<Digits[(n % 10) + 1]>>

\* Lines 214-218.
reserved_names ==
    {<<"C", "O", "N">>, <<"P", "R", "N">>, <<"A", "U", "X">>, <<"N", "U", "L">>}
    \cup {<<"C", "O", "M", Digits[i + 1]>> : i \in 1..9}
    \cup {<<"L", "P", "T", Digits[i + 1]>> : i \in 1..9}

\* Lines 194-202: stem and ext of the cleaned name.
SplitName(clean_name, file) ==
    IF file
    THEN [stem |-> PathStem(PathName(clean_name)),
          ext |-> ToLower(PathSuffix(PathName(clean_name)))]
    ELSE [stem |-> StripDots(clean_name), ext |-> <<>>]

\* Lines 205-211: the stem is cut to the length left for it.
TruncateStem(s, e, file, length) ==
    IF file
    THEN Truncated(s, IF length - Len(e) > 1 THEN length - Len(e) ELSE 1)
    ELSE Truncated(s, length)

\* Lines 219-221: a reserved device name gets an underscore in front.
AvoidReserved(s) == IF ToUpper(s) \in reserved_names THEN <<"_">> \o s ELSE s

\* A candidate that would ignore the counter.
NumberedNameFirst(s, n, e) == s \o <<"_", "1">> \o e

\* Line 229: f"{stem}_{counter}{ext}"
NumberedName(s, n, e) == s \o <<"_">> \o Decimal(n) \o e

\* (parent_path / final_name).exists(): the empty name is parent_path itself and
\* ".." is its parent.
Exists(dir, n) == n = <<>> \/ n = <<".", ".">> \/ n \in dir

\* The characters of the names tried, and some names with letters of both cases.
Alphabet == {"a", ".", " ", "?", "_"}

SpecialNames ==
    {<<"C", "O", "N">>, <<"c", "o", "n", "a", "a">>, <<"a", ".", "X">>}

Names == BoundedSeq(Alphabet, MaxNameLen) \cup SpecialNames

\* Names that may exist in parent_path before the call.
Entries == {<<"a">>, <<"a", "_", "1">>, <<"a", "a">>, <<"c", "o", "n">>}

\* max_length: the default and small values.
Lengths == {50} \cup 2..MaxLength

\* Lines 181-225: the name is cleaned, split, cut and made into the first
\* candidate; a name that is empty after cleaning raises ValueError.
EnterSanitize(name, file, length) ==
    /\ pathname' = name
    /\ is_file' = file
    /\ max_length' = length
    /\ LET clean_name == CleanName(name)
           parts == SplitName(clean_name, file)
           cut == AvoidReserved(TruncateStem(parts.stem, parts.ext, file, length))
       IN  IF clean_name = <<>>
           THEN /\ pc' = "ValueError"
                /\ UNCHANGED <<stem, ext, final_name, counter>>
           ELSE /\ stem' = cut
                /\ ext' = parts.ext
                /\ final_name' = cut \o parts.ext
                /\ counter' = 1
                /\ pc' = "exists"
    /\ UNCHANGED <<idle_vars, transfer_vars, block_transfer, fs, parent_path, returned>>

\* A caller calls sanitize_pathname(parent_path, name, is_file, max_length).
SanitizeCall ==
    /\ pc = "caller"
    /\ returned = <<>>
    /\ \E name \in Names, file \in BOOLEAN, length \in Lengths :
          EnterSanitize(name, file, length)

\* Lines 227-230: one iteration of the while loop.
NextCandidate ==
    /\ pc = "exists"
    /\ Exists(parent_path, final_name)
    /\ counter <= MaxCounter
    /\ final_name' = NumberedName(stem, counter, ext)
    /\ counter' = counter + 1
    /\ UNCHANGED <<idle_vars, transfer_vars, block_transfer, fs, pc, pathname,
                   is_file, max_length, parent_path, stem, ext, returned>>

\* Line 233: the loop is left with a name that does not exist.
SanitizeReturn ==
    /\ pc = "exists"
    /\ ~Exists(parent_path, final_name)
    /\ returned' = Append(returned, final_name)
    /\ pc' = "returned"
    /\ UNCHANGED <<idle_vars, transfer_vars, block_transfer, fs, pathname, is_file,
                   max_length, parent_path, stem, ext, final_name, counter>>

\* The caller hands the name it got to sanitize_pathname again, with the same
\* is_file and max_length and parent_path as it was (process_output_ocr.py:340
\* does so with the name of the folder process_email_inbox.py:182 made).
SanitizeAgain ==
    /\ pc = "returned"
    /\ Len(returned) = 1
    /\ EnterSanitize(returned[1], is_file, max_length)

InitSanitize ==
    /\ NoEngine
    /\ NoTransfer
    /\ NoWatcher
    /\ block_transfer = FALSE
    /\ fs = NoFs
    /\ pc = "caller"
    /\ pathname = <<>>
    /\ is_file = TRUE
    /\ max_length = 50
    /\ parent_path \in SUBSET Entries
    /\ stem = <<>>
    /\ ext = <<>>
    /\ final_name = <<>>
    /\ counter = 1
    /\ returned = <<>>

NextSanitize ==
    \/ SanitizeCall
    \/ NextCandidate
    \/ SanitizeReturn
    \/ SanitizeAgain

SpecSanitize == InitSanitize /\ [][NextSanitize]_vars

\* The function runs on: the loop of lines 227-230 is the only code of its
\* thread, so its next step is taken when there is one.
SpecSanitizeRuns == SpecSanitize /\ WF_vars(NextCandidate \/ SanitizeReturn)

-----------------------------------------------------------------------------
(* The pass over a folder with one listed file whose OCR document on disk  *)
(* is followed, from what the OCR stage wrote to what write_json leaves.   *)

OneDocument ==
    /\ enable_success_notifications = TRUE
    /\ root = [f \in Folders |-> Staged(f = "f1")]
    /\ folders_for_processing = <<"f1">>
    /\ processed = <<"f1">>
    /\ emails = 0
    /\ ocr \in [{FileNames[1]} -> OcrDocs]

InitLoad ==
    /\ enable_send_production_data \in BOOLEAN
    /\ block_transfer \in BOOLEAN
    /\ metadata = [is_dict |-> TRUE, well_formed |-> TRUE, files |-> <<FileNames[1]>>,
                   errors |-> EmptyDict, partial_successes |-> EmptyDict,
                   successes |-> EmptyDict, global_error |-> FALSE]
    /\ \E present \in SUBSET StagedPaths(metadata.files) :
          fs = [folder |-> "staging",
                staging |-> {Entry(p, FALSE) : p \in present},
                error |-> {}, success |-> {}, made |-> {}]
    /\ pc = "start"
    /\ idx = 1
    /\ json_data = NoDoc
    /\ transaction_numbers = <<>>
    /\ iter = NoIter
    /\ tx_log = <<>>
    /\ cont_log = <<>>
    /\ cache = <<>>
    /\ cache_tsup = <<>>
    /\ http_log = <<>>
    /\ call = NoCall
    /\ OneDocument
    /\ NoUtil

NextLoad ==
    \/ StartFolder
    \/ LoadFile
    \/ TransactionLookup
    \/ ContainerLookup
    \/ Submit
    \/ PostPass

SpecLoad == InitLoad /\ [][NextLoad]_vars

-----------------------------------------------------------------------------
(* FolderWatcher: src/src/folder_watcher.py. main starts one thread that   *)
(* runs monitor (src/main.py:34-55); the observer thread of watchdog calls *)
(* on_any_event. Time is counted in ticks.                                 *)

\* FolderWatcher(forced_timeout=..., event_delay=...), in ticks.
forced_timeout == 2

event_delay == 1

\* time.time() when monitor starts: long after the 0.0 of last_callback_time.
StartTime == forced_timeout

WatcherRest == <<engine_idle, transfer_vars, sanitize_vars, block_transfer, fs>>

\* Time passes, whatever the threads are doing.
Tick ==
    /\ clock < StartTime + MaxTime
    /\ clock' = clock + 1
    /\ UNCHANGED <<WatcherRest, pc, event_detected, last_event_time, is_processing,
                   last_callback_time, current_time, observer_pc, running, event_vars>>

\* The events watchdog delivers: a type and the end of the path.
Events == [event_type : {"created", "modified", "deleted"},
           suffix : {".json", ".tmp", ".part", "~"}]

\* Lines 69-74: deletions and temporary files are passed over.
ignored_extensions == {".tmp", ".part", "~"}

Ignored(event) ==
    \/ event.event_type = "deleted"
    \/ event.suffix \in ignored_extensions

\* on_any_event, lines 69-74, for an event that is ignored: nothing is set.
EventIgnored ==
    /\ observer_pc = "idle"
    /\ \E event \in Events : Ignored(event)
    /\ ignored_time' = clock
    /\ UNCHANGED <<WatcherRest, pc, event_detected, last_event_time, is_processing,
                   last_callback_time, current_time, clock, observer_pc, running,
                   event_time, during, callback_error>>

\* on_any_event, line 78, for an event that is not ignored: the flag is set.
EventDetected ==
    /\ observer_pc = "idle"
    /\ \E event \in Events : ~Ignored(event)
    /\ event_detected' = TRUE
    /\ observer_pc' = "stamp"
    /\ event_time' = clock
    /\ during' = (during \/ pc = "callback")
    /\ UNCHANGED <<WatcherRest, pc, last_event_time, is_processing, last_callback_time,
                   current_time, clock, running, ignored_time, callback_error>>

\* on_any_event, line 79: the time of the event is recorded.
EventStamped ==
    /\ observer_pc = "stamp"
    /\ last_event_time' = clock
    /\ observer_pc' = "idle"
    /\ UNCHANGED <<WatcherRest, pc, event_detected, is_processing, last_callback_time,
                   current_time, clock, running, event_vars>>

\* A dispatch that would start the callback without waiting for it to end.
DispatchDetached ==
    /\ running' = running + 1
    /\ UNCHANGED <<is_processing, pc>>

\* Lines 153-156: the flag is set and the callback is called in the thread of
\* monitor, which goes on only when the call has ended.
Dispatch ==
    /\ is_processing' = TRUE
    /\ running' = running + 1
    /\ pc' = "callback"

\* Lines 127-156, one round of the loop: after the sleep the conditions are
\* evaluated and the callback is started when an event has settled or the forced
\* timeout has passed.
MonitorWake ==
    /\ pc = "sleep"
    /\ current_time' = clock
    /\ LET event_ready == event_detected /\ clock - last_event_time >= event_delay
           timeout_ready == ~event_detected
                            /\ clock - last_callback_time >= forced_timeout
       IN  IF ~is_processing /\ (event_ready \/ timeout_ready)
           THEN Dispatch
           ELSE UNCHANGED <<is_processing, running, pc>>
    /\ UNCHANGED <<WatcherRest, event_detected, last_event_time, last_callback_time,
                   clock, observer_pc, event_vars>>

\* A round whose call of the callback is not guarded: an exception of the callback
\* leaves the loop with the flag still set.
CallbackEndsUnguarded ==
    /\ pc = "callback"
    /\ \E outcome \in {"returned", "raised"} :
           /\ callback_error' = (outcome = "raised")
           /\ IF outcome = "raised"
              THEN /\ pc' = "stopped"
                   /\ UNCHANGED <<event_detected, is_processing, last_callback_time>>
              ELSE /\ pc' = "sleep"
                   /\ event_detected' = FALSE
                   /\ is_processing' = FALSE
                   /\ last_callback_time' = current_time
    /\ running' = running - 1
    /\ during' = FALSE
    /\ UNCHANGED <<WatcherRest, last_event_time, current_time, clock, observer_pc,
                   event_time, ignored_time>>

\* Lines 157-164: the callback returns or raises, after any time; the finally
\* clause resets the flags and records the time the round began.
CallbackEnds ==
    /\ pc = "callback"
    /\ \E outcome \in {"returned", "raised"} :
           callback_error' = (outcome = "raised")
    /\ event_detected' = FALSE
    /\ is_processing' = FALSE
    /\ last_callback_time' = current_time
    /\ running' = running - 1
    /\ during' = FALSE
    /\ pc' = "sleep"
    /\ UNCHANGED <<WatcherRest, last_event_time, current_time, clock, observer_pc,
                   event_time, ignored_time>>

\* Lines 52-54 and 124: the watcher as constructed, monitor before its first round.
InitWatcher ==
    /\ NoEngine
    /\ NoTransfer
    /\ NoSanitize
    /\ block_transfer = FALSE
    /\ fs = NoFs
    /\ pc = "sleep"
    /\ event_detected = FALSE
    /\ last_event_time = 0
    /\ is_processing = FALSE
    /\ last_callback_time = 0
    /\ current_time = 0
    /\ clock = StartTime
    /\ observer_pc = "idle"
    /\ running = 0
    /\ event_time = 0
    /\ ignored_time = 0
    /\ during = FALSE
    /\ callback_error = FALSE

NextWatcher ==
    \/ Tick
    \/ EventIgnored
    \/ EventDetected
    \/ EventStamped
    \/ MonitorWake
    \/ CallbackEnds

SpecWatcher == InitWatcher /\ [][NextWatcher]_vars

-----------------------------------------------------------------------------
(* One staged folder over the passes of process_output_ocr that take it    *)
(* up: a pass that ends in the folder-level except leaves the folder and   *)
(* its metadata.json where they are, and the next call finds them again.   *)

\* metadata["files"] of the folder.
RepeatFiles == SubSeq(FileNames, 1, 2)

\* How the files that the pass has gone through ended: with a success message
\* (line 577) or with an error message and `continue`.
EndedBy(m, n) ==
    [f \in {m.files[i] : i \in 1..(n - 1)} |->
        IF f \in DOMAIN m.successes THEN "SUCCESS" ELSE "ERROR"]

\* Lines 319-343 of the next call of process_output_ocr: the folder is still in
\* the staging root with its metadata.json, which no one has written since it
\* was read (write_json of line 598 was not reached); the names of the error
\* and success folders are made anew.
Rescan ==
    /\ pc = "exception"
    /\ passes < MaxPasses
    /\ fs.folder = "staging"
    /\ Has(fs.staging, MetadataPath)
    /\ passes' = passes + 1
    /\ finished' = LET now == EndedBy(metadata, idx)
                   IN  [f \in DOMAIN finished \cup DOMAIN now |->
                           IF f \in DOMAIN now THEN now[f] ELSE finished[f]]
    /\ metadata' = metadata_file
    /\ fs' = [NoFs EXCEPT !.staging = fs.staging]
    /\ pc' = "start"
    /\ idx' = 1
    /\ json_data' = NoDoc
    /\ transaction_numbers' = <<>>
    /\ iter' = NoIter
    /\ tx_log' = <<>>
    /\ cont_log' = <<>>
    /\ call' = NoCall
    /\ emails' = 0
    /\ UNCHANGED <<transfer_vars, sanitize_vars, watcher_vars, key_vars, copy_vars,
                   late_vars,
                   metadata_file,
                   enable_send_production_data, block_transfer, client_vars,
                   enable_success_notifications, root, folders_for_processing,
                   processed, ocr>>

InitRepeat ==
    /\ enable_send_production_data \in BOOLEAN
    /\ block_transfer \in BOOLEAN
    /\ metadata_file = [NoMetadata EXCEPT !.files = RepeatFiles]
    /\ metadata = metadata_file
    /\ \E present \in SUBSET StagedPaths(RepeatFiles) :
          fs = [NoFs EXCEPT !.staging = {Entry(p, FALSE) : p \in present \cup {MetadataPath}}]
    /\ ocr \in [Range(RepeatFiles) -> PassDocs]
    /\ enable_success_notifications = TRUE
    /\ root = [f \in Folders |-> Staged(f = "f1")]
    /\ folders_for_processing = <<"f1">>
    /\ processed = <<"f1">>
    /\ emails = 0
    /\ finished = <<>>
    /\ passes = 1
    /\ pc = "start"
    /\ idx = 1
    /\ json_data = NoDoc
    /\ transaction_numbers = <<>>
    /\ iter = NoIter
    /\ tx_log = <<>>
    /\ cont_log = <<>>
    /\ cache = <<>>
    /\ cache_tsup = <<>>
    /\ http_log = <<>>
    /\ call = NoCall
    /\ NoTransfer
    /\ NoSanitize
    /\ NoWatcher
    /\ NoKeys
    /\ NoCopy
    /\ NoLate

NextRepeat ==
    \/ StartFolder
    \/ LoadFile
    \/ TransactionLookup
    \/ ContainerLookup
    \/ Submit
    \/ PostPass
    \/ Report
    \/ Archive
    \/ Cleanup
    \/ Rescan

SpecRepeat == InitRepeat /\ [][NextRepeat]_vars

-----------------------------------------------------------------------------
(* The cache wrappers from empty caches, under the lookups the program     *)
(* makes (process_output_ocr.py:460-496, utils_tsup.py:87-91) with any     *)
(* text for the bill of lading or the transaction number.                  *)

\* Texts of an argument; the underscore is the separator of the cache key.
KeyArgs == {<<"1">>, <<"_">>, <<"1", "1">>, <<"1", "_">>, <<"_", "1">>, <<"_", "_">>}

\* cup_http_request(function, bill_of_lading), cup_http_request(function,
\* transaction_number, encode=False) and tsup_http_request(func_main,
\* transaction_number, (receiving_fc_field, provision_fc_field)).
KeyCalls ==
    {[NoCall EXCEPT !.fn = "cup_http_request", !.function = TransactionFunction,
                    !.args = <<a>>] : a \in KeyArgs}
    \cup {[NoCall EXCEPT !.fn = "cup_http_request", !.function = ContainerFunction,
                         !.args = <<a>>, !.encode = FALSE] : a \in KeyArgs}
    \cup {[NoCall EXCEPT !.fn = "tsup_http_request", !.function = EnrichmentFunction,
                         !.args = <<Str(a), Tuple(<<<<"R">>, <<"P">>>>)>>] : a \in KeyArgs}

\* What the endpoints answer to a lookup.
KeyExchanges == {Answer(HTTP_OK, TRUE, List(<<T1>>)), Answer(HTTP_OK, TRUE, List(<<T2>>))}

\* A lookup through its wrapper, from the call to the return: the cached value,
\* or what the endpoints answered, which the wrapper then stores.
CachedLookup ==
    /\ pc = "client"
    /\ lookups < MaxLookups
    /\ \E cl \in KeyCalls, outs \in [1..2 -> KeyExchanges] :
          LET r == ClientRun(cl, cache, cache_tsup, outs)
              stored == IF cl.fn = "cup_http_request" THEN r.cache ELSE r.cache_tsup
          IN  /\ call' = [cl EXCEPT !.ret = r.ret, !.hit = r.hit, !.result = r.result]
              /\ http_log' = r.log
              /\ cache' = r.cache
              /\ cache_tsup' = r.cache_tsup
              /\ origin' = IF r.hit THEN origin
                           ELSE Put(origin, <<cl.fn, Last(stored).key>>,
                                    [function |-> cl.function, args |-> cl.args,
                                     result |-> r.result])
    /\ lookups' = lookups + 1
    /\ UNCHANGED <<transfer_vars, sanitize_vars, watcher_vars, repeat_vars, copy_vars,
                   late_vars,
                   enable_send_production_data, block_transfer, fs, metadata, pc, idx,
                   json_data, transaction_numbers, iter, tx_log, cont_log, pass_vars>>

InitKeys ==
    /\ pc = "client"
    /\ cache = <<>>
    /\ cache_tsup = <<>>
    /\ http_log = <<>>
    /\ call = NoCall
    /\ origin = <<>>
    /\ lookups = 0
    /\ enable_send_production_data = FALSE
    /\ block_transfer = FALSE
    /\ metadata = NoMetadata
    /\ fs = NoFs
    /\ idx = 1
    /\ json_data = NoDoc
    /\ transaction_numbers = <<>>
    /\ iter = NoIter
    /\ tx_log = <<>>
    /\ cont_log = <<>>
    /\ NoFolder
    /\ NoTransfer
    /\ NoSanitize
    /\ NoWatcher
    /\ NoRepeat
    /\ NoCopy
    /\ NoLate

NextKeys == CachedLookup

SpecKeys == InitKeys /\ [][NextKeys]_vars

-----------------------------------------------------------------------------
(* The dicts of a submit call: send_production_data (utils_1c.py:146-253)  *)
(* and the enrichment of send_data_to_tsup (utils_tsup.py:21-135,          *)
(* 262-405). A dict is an object of the heap; the value under "containers" *)
(* is the list of the addresses of the container dicts, so that a copy can *)
(* share them or not.                                                      *)

\* d.pop(k, default): the dict without the key.
Pop(d, k) == [x \in DOMAIN d \ {k} |-> d[x]]

\* The container dicts of the dict at address a: data.get("containers", []).
ContainersAt(h, a) == Get(h[a], "containers")

\* copy.copy(data_source): a new outer dict over the same container dicts.
ShallowCopy(h, a) == [heap |-> Append(h, h[a]), at |-> Len(h) + 1]

\* copy.deepcopy(data_source): new container dicts and a new outer dict.
DeepCopy(h, a) ==
    LET cs == ContainersAt(h, a)
        copies == [i \in DOMAIN cs |-> h[cs[i]]]
        outer == IF "containers" \in DOMAIN h[a]
                 THEN [h[a] EXCEPT !["containers"] = [i \in DOMAIN cs |-> Len(h) + i]]
                 ELSE h[a]
    IN  [heap |-> h \o copies \o <<outer>>, at |-> Len(h) + Len(cs) + 1]

\* The value of the dict at address a, the container dicts included.
ValueAt(h, a) ==
    [k \in DOMAIN h[a] |->
        IF k = "containers" THEN [i \in DOMAIN h[a][k] |-> h[h[a][k][i]]] ELSE h[a][k]]

\* Field names of the ERP (the Russian names of the source, transliterated).
date_receipt_field == "ImpMorskayaPerevozkaDataPolucheniyaDU"

voyage_field == "ImpMorskayaPerevozkaNomerReysaFider"

seals_field == "ImpMorskayaPerevozkaNomerPlomby"

date_issue_field == "ImpMorskayaPerevozkaDataVygruzkiKonteynera"

provision_fc_field == "DataPredostavleniyaFSPoGP"

\* remap_production_data on one container dict.
RemapContainer(c) ==
    Pop(Put(Put(Pop(Pop(c, "seals"), "upload_datetime"),
                seals_field, Get(c, "seals")),
            date_issue_field, Get(c, "upload_datetime")),
        "note")

\* remap_production_data(data): the keys of the outer dict and of every container
\* dict are renamed in place, document_type and note are removed.
RemapProductionData(h, a) ==
    LET cs == Range(ContainersAt(h, a))
    IN  [x \in DOMAIN h |->
            IF x = a
            THEN Pop(Put(Put(Pop(Pop(h[a], "document_created_datetime"), "voyage_number"),
                             date_receipt_field, Get(h[a], "document_created_datetime")),
                         voyage_field, Get(h[a], "voyage_number")),
                     "document_type")
            ELSE IF x \in cs THEN RemapContainer(h[x])
            ELSE h[x]]

\* A container dict of the OCR document after update_json, and one as the ERP
\* takes it, with or without an unloading date.
ContainerDict(i, format, dated) ==
    IF format = "ocr"
    THEN ("container" :> <<ToString(i)>>) @@ ("seals" :> <<"S1">>)
            @@ ("upload_datetime" :> <<>>) @@ ("note" :> <<>>)
    ELSE ("container" :> <<ToString(i)>>) @@ (seals_field :> <<"S1">>)
            @@ (date_issue_field :> IF dated THEN <<"d">> ELSE <<>>)

\* The heap of the caller: n container dicts and the outer dict at address n + 1.
CallerHeap(n, tns, format, dated) ==
    [i \in 1..n |-> ContainerDict(i, format, dated)]
        \o << ("bill_of_lading" :> <<"X">>) @@ ("transaction_numbers" :> tns)
                 @@ ("containers" :> [i \in 1..n |-> i])
                 @@ (IF format = "ocr"
                     THEN ("document_type" :> <<"KS">>)
                             @@ ("document_created_datetime" :> <<>>)
                             @@ ("voyage_number" :> <<>>)
                     ELSE (date_receipt_field :> <<>>) @@ (voyage_field :> <<>>)) >>

\* What the submit calls leave alone.
CopyRest ==
    <<transfer_vars, sanitize_vars, watcher_vars, repeat_vars, key_vars, late_vars,
      enable_send_production_data, block_transfer, fs, metadata, idx, json_data,
      transaction_numbers, iter, tx_log, cont_log, client_vars, pass_vars>>

\* send_production_data, lines 203-219: the argument is copied, the copy is
\* remapped and its transaction numbers are taken out.
SendProductionDataCall ==
    /\ pc = "caller"
    /\ LET copied == DeepCopy(heap, data_source)
           remapped == RemapProductionData(copied.heap, copied.at)
       IN  /\ local_data' = copied.at
           /\ pending' = Get(remapped[copied.at], "transaction_numbers")
           /\ heap' = [remapped EXCEPT ![copied.at] = Pop(@, "transaction_numbers")]
    /\ call' = [NoCall EXCEPT !.fn = "send_production_data", !.ret = "running"]
    /\ pc' = "posting"
    /\ UNCHANGED <<CopyRest, data_source, passed>>

\* Lines 222-251: data["transaction_number"] = transaction_number, then the POSTs.
PostTransaction ==
    /\ pc = "posting"
    /\ pending # <<>>
    /\ heap' = [heap EXCEPT ![local_data] = Put(@, "transaction_number", Head(pending))]
    /\ pending' = Tail(pending)
    /\ UNCHANGED <<CopyRest, pc, call, data_source, local_data, passed>>

\* Line 253: return success_flag.
SendProductionDataReturns ==
    /\ pc = "posting"
    /\ pending = <<>>
    /\ \E ret \in {"true", "false"} : call' = [call EXCEPT !.ret = ret]
    /\ pc' = "returned"
    /\ UNCHANGED <<CopyRest, copy_vars>>

\* The container numbers of the dicts cs that carry an unloading date.
ContainersWithIssueDate(h, cs) ==
    {Get(h[cs[i]], "container") : i \in {j \in DOMAIN cs :
        Get(h[cs[j]], "container") # <<>> /\ Get(h[cs[j]], date_issue_field) # <<>>}}

\* Lines 121-133: the date of provision is written into the container dicts whose
\* number is in need_update, for those whose date parse_datetime reads.
Enriched(h, cs, need_update, parsed) ==
    [x \in DOMAIN h |->
        IF /\ x \in Range(cs)
           /\ Get(h[x], "container") \in need_update
           /\ Get(h[x], date_issue_field) # <<>>
           /\ x \in parsed
        THEN Put(h[x], provision_fc_field, <<"d", "+">>)
        ELSE h[x]]

\* send_data_to_tsup up to its POST loop (utils_tsup.py:357-369) with
\* enrich_containers_with_provision_date (46-135): what the lookup answers
\* (nothing, a list, or something that raises in the comprehension), which of the
\* containers the ERP has no dates for, and which dates parse_datetime reads.
SendDataToTsupCall ==
    /\ pc = "caller"
    /\ \E function \in SendMethodName, apply \in BOOLEAN,
          response \in {"none", "list", "raise"} :
          /\ call' = [NoCall EXCEPT !.fn = "send_data_to_tsup", !.function = function,
                                    !.apply = apply, !.ret = "running"]
          /\ IF ~apply \/ function # <<"SendProductionDataToTransaction">>
             THEN /\ local_data' = data_source
                  /\ pc' = "tsup_posting"
                  /\ UNCHANGED heap
             ELSE LET copied == DeepCopy(heap, data_source)
                      cs == ContainersAt(copied.heap, copied.at)
                      with_date == ContainersWithIssueDate(copied.heap, cs)
                  IN  IF \/ Get(copied.heap[copied.at], "transaction_numbers") = <<>>
                         \/ cs = <<>>
                         \/ with_date = {}
                         \/ response = "none"
                      THEN /\ heap' = copied.heap
                           /\ local_data' = data_source
                           /\ pc' = "tsup_posting"
                      ELSE IF response = "raise"
                      THEN /\ heap' = copied.heap
                           /\ local_data' = copied.at
                           /\ pc' = "raised"
                      ELSE \E need_update \in SUBSET with_date, parsed \in SUBSET Range(cs) :
                              /\ heap' = Enriched(copied.heap, cs, need_update, parsed)
                              /\ local_data' = copied.at
                              /\ pc' = "tsup_posting"
    /\ UNCHANGED <<CopyRest, data_source, passed, pending>>

\* Lines 371-405: the POST loop sends `data` as it is and the call returns.
SendDataToTsupReturns ==
    /\ pc = "tsup_posting"
    /\ \E ret \in {"true", "false"} : call' = [call EXCEPT !.ret = ret]
    /\ pc' = "returned"
    /\ UNCHANGED <<CopyRest, copy_vars>>

InitCopy ==
    /\ pc = "caller"
    /\ \E n \in 0..MaxContainers, tns \in {<<>>, <<T1>>, <<T1, T2>>},
          format \in {"ocr", "1c"}, dated \in BOOLEAN :
          /\ format = "ocr" => ~dated
          /\ heap = CallerHeap(n, tns, format, dated)
          /\ data_source = n + 1
    /\ local_data = 0
    /\ passed = ValueAt(heap, data_source)
    /\ pending = <<>>
    /\ call = NoCall
    /\ cache = <<>>
    /\ cache_tsup = <<>>
    /\ http_log = <<>>
    /\ enable_send_production_data = TRUE
    /\ block_transfer = FALSE
    /\ metadata = NoMetadata
    /\ fs = NoFs
    /\ idx = 1
    /\ json_data = NoDoc
    /\ transaction_numbers = <<>>
    /\ iter = NoIter
    /\ tx_log = <<>>
    /\ cont_log = <<>>
    /\ NoFolder
    /\ NoTransfer
    /\ NoSanitize
    /\ NoWatcher
    /\ NoRepeat
    /\ NoKeys
    /\ NoLate

NextCopy ==
    \/ SendProductionDataCall
    \/ PostTransaction
    \/ SendProductionDataReturns
    \/ SendDataToTsupCall
    \/ SendDataToTsupReturns

SpecCopy == InitCopy /\ [][NextCopy]_vars

------------------------------------------------------------------------------
(* send_email: src/src/utils_email.py. The recipients are normalised and    *)
(* checked, the switch of the configuration is read, and the message is     *)
(* handed to the SMTP server in a loop of attempts with a sleep between     *)
(* them. Every attempt is a network exchange with a timeout and every sleep *)
(* is finite, so a call that has begun goes on (SpecEmailRuns).             *)

\* A recipient_emails that is a string: the value holds its characters.
Text(s) == [kind |-> "str", v |-> <<s>>]

\* Line 266: the characters re.split takes as separators ([;,\s]+).
Separators == {";", ",", " "}

\* Lines 266-267: the runs of characters between separators, none of them empty.
RECURSIVE Tokens(_, _)
Tokens(s, token) ==
    IF s = <<>> THEN (IF token = <<>> THEN <<>> ELSE <<token>>)
    ELSE IF Head(s) \in Separators
         THEN (IF token = <<>> THEN <<>> ELSE <<token>>) \o Tokens(Tail(s), <<>>)
         ELSE Tokens(Tail(s), Append(token, Head(s)))

\* Line 270: the elements of a sequence, stripped, without the empty ones.
RECURSIVE Stripped(_)
Stripped(s) ==
    IF s = <<>> THEN <<>>
    ELSE IF Head(s) # <<>> /\ Strip(Head(s)) # <<>>
         THEN <<Strip(Head(s))>> \o Stripped(Tail(s))
         ELSE Stripped(Tail(s))

\* Line 276, list(dict.fromkeys(items)): the first occurrence of every item.
RECURSIVE FromKeys(_, _)
FromKeys(items, seen) ==
    IF items = <<>> THEN <<>>
    ELSE IF Head(items) \in seen THEN FromKeys(Tail(items), seen)
         ELSE <<Head(items)>> \o FromKeys(Tail(items), seen \cup {Head(items)})

\* _normalize_recipients, lines 245-276.
NormalizeRecipients(given) ==
    IF given.kind = "str" THEN FromKeys(Tokens(Strip(given.v[1]), <<>>), {})
    ELSE IF given.kind = "list" THEN FromKeys(Stripped(given.v), {})
    ELSE <<>>

\* What a caller passes as recipient_emails: a list of addresses as
\* CONFIG.notification_emails is one (process_output_ocr.py:613), a string, or
\* nothing.
RecipientInputs ==
    {Null,
     List(<<>>), List(<< <<>> >>), List(<< <<" ">> >>), List(<< <<"a">> >>),
     List(<< <<" ", "a", " ">> >>), List(<< <<"a">>, <<"a">> >>),
     List(<< <<"a">>, <<"b">> >>), List(<< <<>>, <<" ">> >>),
     List(<< <<" ">>, <<"b">> >>),
     Text(<<>>), Text(<<" ">>), Text(<<",">>), Text(<<"a">>),
     Text(<<"a", ",", "b">>), Text(<<"a", ";", " ", "a">>), Text(<<" ", ";">>)}

\* How one pass of the try block of lines 496-520 ends: the message was sent, or
\* one of the exceptions the clauses name was raised.
SmtpOutcomes ==
    {"sent", "SMTPAuthenticationError", "SMTPException", "TimeoutError", "OSError",
     "Exception"}

\* What send_email leaves alone.
EmailRest ==
    <<transfer_vars, sanitize_vars, watcher_vars, repeat_vars, key_vars, copy_vars,
      imap_vars, enable_send_production_data, block_transfer, fs, metadata, idx,
      json_data, transaction_numbers, iter, tx_log, cont_log, client_vars, pass_vars,
      pc, call>>

\* Lines 423-494: the recipients are normalised; without a recipient, or with
\* the notifications switched off, the call returns; otherwise the message is
\* built and the loop of range(1, max_retries + 1) is entered, if it has a round.
SendEmailCall ==
    /\ email_pc = "call"
    /\ recipients' = NormalizeRecipients(recipient_emails)
    /\ IF recipients' = <<>> \/ ~enable_email_notification \/ max_retries < 1
       THEN /\ email_pc' = "returned"
            /\ UNCHANGED attempt
       ELSE /\ email_pc' = "attempt"
            /\ attempt' = 1
    /\ UNCHANGED <<EmailRest, recipient_emails, enable_email_notification, max_retries,
                   smtp_log>>

\* An attempt after which an authentication error is retried like any other.
SmtpAttemptRetrying ==
    /\ email_pc = "attempt"
    /\ \E outcome \in SmtpOutcomes :
           /\ smtp_log' = Append(smtp_log, outcome)
           /\ email_pc' = IF outcome = "sent" THEN "returned"
                          ELSE IF attempt < max_retries THEN "sleep"
                          ELSE "returned"
    /\ UNCHANGED <<EmailRest, recipient_emails, recipients, enable_email_notification,
                   max_retries, attempt>>

\* Lines 494-530, one round of the loop up to its sleep: the message is sent
\* (return, line 508), the login is refused (return, line 512), or another
\* exception is caught and logged, and the round goes to the sleep if rounds
\* are left and to the end of the loop (line 530) if none is.
SmtpAttempt ==
    /\ email_pc = "attempt"
    /\ \E outcome \in SmtpOutcomes :
           /\ smtp_log' = Append(smtp_log, outcome)
           /\ email_pc' = IF outcome \in {"sent", "SMTPAuthenticationError"}
                          THEN "returned"
                          ELSE IF attempt < max_retries THEN "sleep"
                          ELSE "returned"
    /\ UNCHANGED <<EmailRest, recipient_emails, recipients, enable_email_notification,
                   max_retries, attempt>>

\* Lines 523-528 and 494: the sleep ends and the next round begins.
RetryDelay ==
    /\ email_pc = "sleep"
    /\ attempt' = attempt + 1
    /\ email_pc' = "attempt"
    /\ UNCHANGED <<EmailRest, recipient_emails, recipients, enable_email_notification,
                   max_retries, smtp_log>>

\* A call of send_email with any recipients, either setting of the switch and
\* any number of attempts allowed.
InitEmail ==
    /\ recipient_emails \in RecipientInputs
    /\ enable_email_notification \in BOOLEAN
    /\ max_retries \in 0..MaxRetries
    /\ recipients = <<>>
    /\ attempt = 0
    /\ smtp_log = <<>>
    /\ email_pc = "call"
    /\ pc = "email"
    /\ call = NoCall
    /\ cache = <<>>
    /\ cache_tsup = <<>>
    /\ http_log = <<>>
    /\ enable_send_production_data = FALSE
    /\ block_transfer = FALSE
    /\ metadata = NoMetadata
    /\ fs = NoFs
    /\ idx = 1
    /\ json_data = NoDoc
    /\ transaction_numbers = <<>>
    /\ iter = NoIter
    /\ tx_log = <<>>
    /\ cont_log = <<>>
    /\ NoFolder
    /\ NoTransfer
    /\ NoSanitize
    /\ NoWatcher
    /\ NoRepeat
    /\ NoKeys
    /\ NoCopy
    /\ NoImap

NextEmail ==
    \/ SendEmailCall
    \/ SmtpAttempt
    \/ RetryDelay

SpecEmail == InitEmail /\ [][NextEmail]_vars

\* Every step of send_email ends: the SMTP exchange has a timeout, the sleep is
\* finite.
SpecEmailRuns == SpecEmail /\ WF_vars(NextEmail)

------------------------------------------------------------------------------
(* EmailMonitor: src/src/process_email_inbox.py. main runs monitor in a     *)
(* thread of its own and calls stop from the main thread when the process   *)
(* is interrupted (src/main.py:69-72). Both threads read and write running  *)
(* and server without a lock, so every read and write of them is a step.    *)
(* Every call on the server has a timeout and the sleep is finite, so the   *)
(* thread of monitor goes on, and so does a call of stop that has begun     *)
(* (SpecMonitorRuns).                                                       *)

\* What the email monitor leaves alone.
MonitorRest ==
    <<transfer_vars, sanitize_vars, watcher_vars, repeat_vars, key_vars, copy_vars,
      email_vars, enable_send_production_data, block_transfer, fs, metadata, idx,
      json_data, transaction_numbers, iter, tx_log, cont_log, client_vars, pass_vars,
      pc, call>>

\* What a call on the server adds to the record once stop has returned.
Late(what) == IF stop_pc = "returned" THEN after_stop \cup {what} ELSE after_stop

\* monitor, line 238: the flag is set.
MonitorStart ==
    /\ monitor_pc = "start"
    /\ monitor_running' = TRUE
    /\ monitor_pc' = "connect"
    /\ UNCHANGED <<MonitorRest, server, responses, stop_pc, after_stop>>

\* connect, lines 72-76, called at line 242 and at line 274: the server is None
\* here (nothing but connect sets it), and a client is made and assigned, or the
\* constructor raises and the except clause assigns None (lines 80-82).
Connect ==
    /\ monitor_pc \in {"connect", "reconnect"}
    /\ \E made \in BOOLEAN :
          /\ server' = IF made THEN "client" ELSE "None"
          /\ monitor_pc' = IF made
                           THEN (IF monitor_pc = "connect" THEN "login" ELSE "relogin")
                           ELSE (IF monitor_pc = "connect" THEN "loop" ELSE "reprocess")
    /\ after_stop' = Late("connect")
    /\ UNCHANGED <<MonitorRest, monitor_running, responses, stop_pc>>

\* connect, lines 77-82: login and select_folder on self.server, which raise when
\* the server refuses and when self.server has become None; the except clause
\* assigns None.
Login ==
    /\ monitor_pc \in {"login", "relogin"}
    /\ \E accepted \in BOOLEAN :
          server' = IF server = "client" /\ accepted THEN "client" ELSE "None"
    /\ monitor_pc' = IF monitor_pc = "login" THEN "loop" ELSE "reprocess"
    /\ UNCHANGED <<MonitorRest, monitor_running, responses, stop_pc, after_stop>>

\* Line 245: while self.running.
LoopTest ==
    /\ monitor_pc = "loop"
    /\ monitor_pc' = IF monitor_running THEN "check" ELSE "ended"
    /\ UNCHANGED <<MonitorRest, monitor_running, server, responses, stop_pc, after_stop>>

\* process_unseen_email_inbox, lines 136-228: the inbox is searched on
\* self.server; with self.server None the exception is caught and logged inside.
Searched == IF server = "client" THEN Late("search") ELSE after_stop

\* Lines 248-252: the forced check, when it is due.
ForcedCheck ==
    /\ monitor_pc = "check"
    /\ \E due \in BOOLEAN : after_stop' = IF due THEN Searched ELSE after_stop
    /\ monitor_pc' = "idle"
    /\ UNCHANGED <<MonitorRest, monitor_running, server, responses, stop_pc>>

\* Lines 255-256: idle and idle_check on self.server, which raise when the
\* connection fails and when self.server is None.
IdleCheck ==
    /\ monitor_pc = "idle"
    /\ IF server = "None"
       THEN /\ monitor_pc' = "except"
            /\ UNCHANGED responses
       ELSE \E answer \in {"quiet", "responses", "error"} :
               /\ responses' = (answer = "responses")
               /\ monitor_pc' = IF answer = "error" THEN "except" ELSE "idle_done"
    /\ UNCHANGED <<MonitorRest, monitor_running, server, stop_pc, after_stop>>

\* Lines 257-260: idle_done on self.server, then the test of responses.
IdleDone ==
    /\ monitor_pc = "idle_done"
    /\ IF server = "None"
       THEN monitor_pc' = "except"
       ELSE \E done \in BOOLEAN :
               monitor_pc' = IF ~done THEN "except"
                             ELSE IF responses THEN "process" ELSE "loop"
    /\ UNCHANGED <<MonitorRest, monitor_running, server, responses, stop_pc, after_stop>>

\* Lines 260-263 and 276-277: the inbox is processed, after IDLE responses and
\* after a reconnect.
ProcessInbox ==
    /\ monitor_pc \in {"process", "reprocess"}
    /\ after_stop' = Searched
    /\ monitor_pc' = "loop"
    /\ UNCHANGED <<MonitorRest, monitor_running, server, responses, stop_pc>>

\* Lines 265-271: the except clause of the loop leaves the loop when running is
\* false, and otherwise disconnects, which leaves self.server None (line 107).
Except ==
    /\ monitor_pc = "except"
    /\ IF ~monitor_running
       THEN /\ monitor_pc' = "ended"
            /\ UNCHANGED server
       ELSE /\ monitor_pc' = "sleep"
            /\ server' = "None"
    /\ UNCHANGED <<MonitorRest, monitor_running, responses, stop_pc, after_stop>>

\* Lines 272-273: after the sleep running is read again.
Recheck ==
    /\ monitor_pc = "sleep"
    /\ monitor_pc' = IF monitor_running THEN "reconnect" ELSE "loop"
    /\ UNCHANGED <<MonitorRest, monitor_running, server, responses, stop_pc, after_stop>>

\* stop, lines 113-116, called by main at any moment after the threads are
\* started: with running false the call returns at once.
StopCall ==
    /\ stop_pc = "main"
    /\ IF ~monitor_running
       THEN stop_pc' = "returned"
       ELSE stop_pc' = "disconnect"
    /\ monitor_running' = FALSE
    /\ UNCHANGED <<MonitorRest, server, responses, monitor_pc, after_stop>>

\* disconnect called by stop, lines 88-89: without a server it returns.
StopDisconnect ==
    /\ stop_pc = "disconnect"
    /\ stop_pc' = IF server = "None" THEN "returned" ELSE "logout"
    /\ UNCHANGED <<MonitorRest, monitor_running, server, responses, monitor_pc,
                   after_stop>>

\* disconnect called by stop, lines 91-107: idle_done and logout, whatever they
\* raise, and self.server = None; stop returns.
StopLogout ==
    /\ stop_pc = "logout"
    /\ server' = "None"
    /\ stop_pc' = "returned"
    /\ UNCHANGED <<MonitorRest, monitor_running, responses, monitor_pc, after_stop>>

\* Lines 61-62 and main.py:45-55: the monitor as constructed, its thread started,
\* the main thread in its loop.
InitMonitor ==
    /\ monitor_running = FALSE
    /\ server = "None"
    /\ responses = FALSE
    /\ monitor_pc = "start"
    /\ stop_pc = "main"
    /\ after_stop = {}
    /\ NoEmail
    /\ pc = "monitor"
    /\ call = NoCall
    /\ cache = <<>>
    /\ cache_tsup = <<>>
    /\ http_log = <<>>
    /\ enable_send_production_data = FALSE
    /\ block_transfer = FALSE
    /\ metadata = NoMetadata
    /\ fs = NoFs
    /\ idx = 1
    /\ json_data = NoDoc
    /\ transaction_numbers = <<>>
    /\ iter = NoIter
    /\ tx_log = <<>>
    /\ cont_log = <<>>
    /\ NoFolder
    /\ NoTransfer
    /\ NoSanitize
    /\ NoWatcher
    /\ NoRepeat
    /\ NoKeys
    /\ NoCopy

MonitorThread ==
    \/ MonitorStart
    \/ Connect
    \/ Login
    \/ LoopTest
    \/ ForcedCheck
    \/ IdleCheck
    \/ IdleDone
    \/ ProcessInbox
    \/ Except
    \/ Recheck

NextMonitor ==
    \/ MonitorThread
    \/ StopCall
    \/ StopDisconnect
    \/ StopLogout

SpecMonitor == InitMonitor /\ [][NextMonitor]_vars

SpecMonitorRuns ==
    /\ SpecMonitor
    /\ WF_vars(MonitorThread)
    /\ WF_vars(StopDisconnect \/ StopLogout)

-----------------------------------------------------------------------------
(* Properties of the pass (specification Spec).                            *)


Kinds(messages) == {messages[i].kind : i \in DOMAIN messages}

\* The file itself (not a copy of it) is in the folder.
OriginalIn(dir, path) == Entry(path, FALSE) \in dir

CopyIn(dir, path) == Entry(path, TRUE) \in dir

Pair(name) == {SourcePath(name), JsonPath(name)}

\* An iteration of the per-file loop has just ended.
AfterIteration == pc = "loop" /\ idx > 1

\* C1: the post-pass leaves no filename in both errors and successes, and every
\* filename that had an error message and a success message is then a key of
\* partial_successes, with the error messages followed by the success messages,
\* and of neither other map.
C1_PostPassSeparates ==
    [][(pc = "loop" /\ pc' = "report") =>
         /\ DOMAIN metadata'.errors \cap DOMAIN metadata'.successes = {}
         /\ \A f \in DOMAIN metadata.errors \cup DOMAIN metadata.successes :
               (Get(metadata.errors, f) # <<>> /\ Get(metadata.successes, f) # <<>>) =>
                  /\ f \in DOMAIN metadata'.partial_successes
                  /\ metadata'.partial_successes[f]
                        = metadata.errors[f] \o metadata.successes[f]
                  /\ f \notin DOMAIN metadata'.errors
                  /\ f \notin DOMAIN metadata'.successes]_vars

C1_Witness ==
    /\ pc = "report"
    /\ \E f \in DOMAIN metadata.partial_successes :
          /\ "loaded" \in Kinds(metadata.partial_successes[f])
          /\ Kinds(metadata.partial_successes[f]) # {"loaded"}
          /\ f \notin DOMAIN metadata.errors \cup DOMAIN metadata.successes

\* C2: when an iteration of the per-file loop ends, the file it was about has a
\* new message: an error message if it ended in ERROR, the success message if it
\* ended in SUCCESS, and it ended in one of the two.
C2_EveryFileGetsAMessage ==
    AfterIteration =>
        /\ iter.name = metadata.files[idx - 1]
        /\ \/ /\ iter.outcome = "ERROR"
              /\ Len(Get(metadata.errors, iter.name)) > iter.errors_before
              /\ Last(metadata.errors[iter.name]).kind # "loaded"
           \/ /\ iter.outcome = "SUCCESS"
              /\ Len(Get(metadata.successes, iter.name)) = iter.successes_before + 1
              /\ Last(metadata.successes[iter.name]).kind = "loaded"

C2_Witness ==
    /\ AfterIteration
    /\ iter.outcome = "ERROR"
    /\ iter.had_source
    /\ iter.had_json
    /\ Last(metadata.errors[iter.name]).kind = "container numbers do not match"

\* C3: with transfers not blocked, after the iteration of a file neither the file
\* nor its JSON is in the staging folder; what was there is in the success folder
\* exactly when the iteration ended in SUCCESS, is in the error folder when it
\* ended in ERROR, and is never in both.
C3_TransfersFollowOutcome ==
    (AfterIteration /\ ~block_transfer) =>
        /\ \A p \in Pair(iter.name) : ~Has(fs.staging, p)
        /\ \A p \in {q \in Pair(iter.name) :
                        IF q.json THEN iter.had_json ELSE iter.had_source} :
              /\ OriginalIn(fs.success, p) <=> iter.outcome = "SUCCESS"
              /\ iter.outcome = "ERROR" => OriginalIn(fs.error, p)
              /\ ~(OriginalIn(fs.success, p) /\ OriginalIn(fs.error, p))

C3_Witness ==
    /\ AfterIteration
    /\ ~block_transfer
    /\ iter.outcome = "SUCCESS"
    /\ \A p \in Pair(iter.name) : OriginalIn(fs.success, p) /\ ~Has(fs.staging, p)

\* The container numbers the ERP returned for the lookups `log`, without the
\* surrounding whitespace.
ErpUnion(log) ==
    UNION {{Strip(x) : x \in Range(log[i].result.v)} : i \in DOMAIN log}

OcrCodeSet(containers) == {containers[i].container : i \in DOMAIN containers}

AllAnswered(log) == \A i \in DOMAIN log : log[i].result.kind # "null"

\* The OCR containers and the ERP containers overlap, and some OCR container is
\* not known to the ERP.
PartialOverlap(containers, log) ==
    /\ AllAnswered(log)
    /\ OcrCodeSet(containers) \cap ErpUnion(log) # {}
    /\ OcrCodeSet(containers) \ ErpUnion(log) # {}

DroppedSome(messages) == "some containers not in ERP" \in Kinds(messages)

C5_Reconciliation ==
    [][(pc = "containers" /\ AllAnswered(cont_log')) =>
         LET union == ErpUnion(cont_log')
             Known(c) == c.container \in union
         IN  /\ Len(cont_log') = Len(transaction_numbers)
             /\ OcrCodeSet(json_data.containers) \cap union = {} =>
                   pc' = "loop" /\ iter'.outcome = "ERROR"
             /\ OcrCodeSet(json_data.containers) \cap union # {} =>
                   /\ pc' = "submit"
                   /\ json_data'.containers = SelectSeq(json_data.containers, Known)
      ]_vars

C5_Witness ==
    /\ pc = "submit"
    /\ Len(cont_log) = 2
    /\ cont_log[1].result # cont_log[2].result
    /\ Len(json_data.containers) = 2
    /\ OcrCodeSet(json_data.containers) = ErpUnion(cont_log)

\* What the specification says of the transaction lookups of one document: the
\* first is by the bill of lading; there is a second exactly when the first
\* returned nothing and the bill of lading ends with SRV, and it is by the bill of
\* lading without SRV; there is no third.
TransactionLookupsOf(bill, log) ==
    /\ Len(log) \in {1, 2}
    /\ log[1].arg = bill
    /\ Len(log) = 2 <=>
          (~Truthy(log[1].result) /\ Len(bill) >= 3
              /\ SubSeq(bill, Len(bill) - 2, Len(bill)) = <<"S", "R", "V">>)
    /\ Len(log) = 2 => log[2].arg = SubSeq(bill, 1, Len(bill) - 3)

C7_AsStated ==
    [][(pc = "containers" /\ \A i \in DOMAIN cont_log' : ~Truthy(cont_log'[i].result)) =>
         /\ pc' = "loop"
         /\ idx' = idx + 1
         /\ iter'.outcome = "ERROR"
         /\ Len(Get(metadata'.errors, iter.name))
               = Len(Get(metadata.errors, iter.name)) + 1
         /\ ~block_transfer =>
               \A p \in Pair(iter.name) :
                   ~Has(fs'.staging, p) /\ OriginalIn(fs'.error, p)
      ]_vars

\* What the specification says of the submission gate: a file ends in SUCCESS,
\* with the success message appended, only if sending is disabled or
\* send_production_data returned true; with sending enabled and false returned it
\* ends in ERROR.
SubmissionGate ==
    /\ iter.outcome = "SUCCESS" =>
          /\ ~enable_send_production_data \/ call.ret = "true"
          /\ Last(metadata.successes[iter.name]).kind = "loaded"
    /\ (enable_send_production_data /\ call.ret = "false") =>
          /\ iter.outcome = "ERROR"
          /\ Last(metadata.errors[iter.name]).kind = "data not loaded"
          /\ \A p \in Pair(iter.name) : ~OriginalIn(fs.success, p)

-----------------------------------------------------------------------------
(* Properties of the ERP client (specification SpecErp).                   *)

\* A lookup has returned after asking the endpoints (its key was not cached).
LookupReturned ==
    /\ call.fn \in {"cup_http_request", "tsup_http_request"}
    /\ call.ret = "value"
    /\ ~call.hit

\* The endpoint answered non-200, raised, or returned a body that does not parse.
EndpointFailed(resp) == resp.exc # "none" \/ resp.status # HTTP_OK \/ ~resp.parses

PrimaryUrl == IF call.kappa THEN KAPPA_URL ELSE LOCAL_URL

SecondaryUrl == IF call.kappa THEN LOCAL_URL ELSE KAPPA_URL

\* What the specification says of the order of the requests of a lookup: the
\* primary endpoint first, the secondary exactly when the primary failed, and the
\* JSON of the first endpoint that succeeded is what the lookup returns.
EndpointFallback ==
    /\ Len(http_log) \in {1, 2}
    /\ \A i \in DOMAIN http_log : http_log[i].req.method = "GET"
    /\ http_log[1].req.url = PrimaryUrl
    /\ Len(http_log) = 2 <=> EndpointFailed(http_log[1].resp)
    /\ Len(http_log) = 2 => http_log[2].req.url = SecondaryUrl
    /\ ~EndpointFailed(Last(http_log).resp) => call.result = Last(http_log).resp.body

BothFailed == \A i \in DOMAIN http_log : EndpointFailed(http_log[i].resp)

\* C9 as the specification states it: the fallback is as above, and the lookup
\* returns null if and only if both endpoints failed.
C9_AsStated ==
    LookupReturned =>
        /\ EndpointFallback
        /\ call.result = Null <=> BothFailed

\* C9, amended: the fallback is as above; the lookup returns null when both
\* endpoints failed, and otherwise only when the JSON of the endpoint that
\* succeeded is null.
C9_EndpointFallback ==
    LookupReturned =>
        /\ EndpointFallback
        /\ BothFailed => call.result = Null
        /\ call.result = Null =>
              BothFailed \/ (~EndpointFailed(Last(http_log).resp)
                                /\ Last(http_log).resp.body = Null)

C9_Witness ==
    /\ LookupReturned
    /\ call.kappa
    /\ Len(http_log) = 2
    /\ http_log[1].resp.exc = "RequestException"
    /\ http_log[2].req.url = LOCAL_URL
    /\ call.result = List(<<T1>>)

\* C10 as the specification states it: whatever the HTTP exchanges of a call did,
\* a lookup returns a value or null and a submit function returns true or false;
\* no call ends with an exception raised out of an exchange.
C10_AsStated ==
    /\ call.fn \in {"cup_http_request", "tsup_http_request"} =>
          call.ret \in {"running", "value"}
    /\ (call.fn \in {"send_production_data", "send_data_to_tsup"}
           /\ http_log # <<>> /\ Last(http_log).req.method = "POST") =>
          call.ret \in {"running", "true", "false"}

-----------------------------------------------------------------------------
(* Properties of the lookup caches (specification SpecCache).              *)

\* The key under which the lookup `cl` is cached.
KeyOf(cl) ==
    IF cl.fn = "cup_http_request" THEN CacheKey(cl.function, cl.args)
    ELSE TsupCacheKey(cl.function, cl.args)

\* The cache that the lookup `cl` uses, out of the two caches c and ct.
CacheOf(cl, c, ct) == IF cl.fn = "cup_http_request" THEN c ELSE ct

IsLookup(cl) == cl.fn \in {"cup_http_request", "tsup_http_request"}

\* From the cache c to the cache d one entry was inserted at the end, and if that
\* made more than max_cache_size entries the entry inserted earliest was removed.
FifoInsert(c, d) ==
    /\ d # <<>>
    /\ ~CacheHas(c, Last(d).key)
    /\ d = IF Len(c) < max_cache_size
           THEN Append(c, Last(d))
           ELSE Append(Tail(c), Last(d))

\* C11: each lookup cache holds at most 40 entries; a cache changes only by the
\* insertion of a new key at the end, which when the cache is full removes the
\* entry inserted earliest; a lookup that asked the endpoints stores its result
\* as the newest entry; and a lookup whose key is cached returns the cached value
\* at once, with both caches unchanged and no request sent.
C11_BoundedFifoCache ==
    [][/\ Len(cache') <= max_cache_size
       /\ Len(cache_tsup') <= max_cache_size
       /\ cache' # cache => FifoInsert(cache, cache')
       /\ cache_tsup' # cache_tsup => FifoInsert(cache_tsup, cache_tsup')
       /\ (IsLookup(call') /\ call'.ret = "value" /\ http_log' # <<>>) =>
             Last(CacheOf(call', cache', cache_tsup'))
                 = [key |-> KeyOf(call'), value |-> call'.result]
       /\ (Idle /\ IsLookup(call')
              /\ CacheHas(CacheOf(call', cache, cache_tsup), KeyOf(call'))) =>
             /\ call'.ret = "value"
             /\ call'.result = CacheGet(CacheOf(call', cache, cache_tsup), KeyOf(call'))
             /\ http_log' = <<>>
             /\ UNCHANGED <<cache, cache_tsup>>]_vars

\* The cache was full, a new key came in and the oldest entry went out: the
\* container lookup of transaction 1 is no longer cached, and the lookup that
\* displaced it is answered from the cache.
C11_Witness ==
    /\ Len(cache) = max_cache_size
    /\ ~CacheHas(cache, CacheKey(ContainerFunction, << <<"1">> >>))
    /\ cache[1].key = CacheKey(ContainerFunction, << <<"2">> >>)
    /\ call.fn = "cup_http_request"
    /\ call.function = TransactionFunction
    /\ call.ret = "value"
    /\ call.hit
    /\ http_log = <<>>

\* C12 as the specification states it: after a lookup returned null because both
\* endpoints failed, the next lookup of the same function and arguments asks the
\* endpoints again instead of being answered with the earlier failure.
C12_AsStated ==
    [][(LookupReturned /\ BothFailed /\ call.result = Null
           /\ IsLookup(call') /\ KeyOf(call') = KeyOf(call) /\ call'.fn = call.fn) =>
          (call'.ret = "running" /\ http_log' # <<>>)]_vars

\* The POST requests of the call, in the order they were sent.
Posts == SelectSeq(http_log, LAMBDA x : x.req.method = "POST")

Answered200(x) == x.resp.exc = "none" /\ x.resp.status = HTTP_OK

SubmitEnded == call.fn = "send_data_to_tsup" /\ call.ret \in {"true", "false", "raise"}

\* C13: a call of send_data_to_tsup with an unknown function name returns false
\* without any request; otherwise it POSTs to the primary endpoint first and to
\* the secondary only after the primary did not answer 200, nothing is sent
\* after a 200, a call that returns has POSTed in this very call, whatever the
\* caches hold, and it returns true if and only if one of its POSTs was answered
\* 200.
C13_SubmitToTsup ==
    SubmitEnded =>
        /\ call.function \notin SendMethodName => call.ret = "false" /\ http_log = <<>>
        /\ Len(Posts) <= 2
        /\ Posts # <<>> => Posts[1].req.url = PrimaryUrl
        /\ Len(Posts) = 2 =>
              ~Answered200(Posts[1]) /\ Posts[2].req.url = SecondaryUrl
        /\ \A i \in DOMAIN http_log :
              (http_log[i].req.method = "POST" /\ Answered200(http_log[i])) =>
                 i = Len(http_log)
        /\ (call.function \in SendMethodName /\ call.ret # "raise") => Posts # <<>>
        /\ call.ret # "raise" =>
              (call.ret = "true" <=> \E i \in DOMAIN Posts : Answered200(Posts[i]))

\* The enrichment was answered from the cache, the primary endpoint refused the
\* POST and the secondary accepted it.
C13_Witness ==
    /\ SubmitEnded
    /\ call.ret = "true"
    /\ EnrichmentLooksUp(call.function, call.payload) /\ call.apply
    /\ Len(http_log) = 2
    /\ Posts = http_log
    /\ Posts[1].resp.exc = "none"
    /\ Posts[2].req.url = SecondaryUrl

\* The number of transaction numbers of the call whose POST was answered 200 by
\* one of the endpoints (the loop over the urls ends at the first 200).
PostedTransactions == Cardinality({i \in DOMAIN Posts : Answered200(Posts[i])})

\* C14 as the specification states it: send_production_data returns True only
\* when the POST was answered 200 for every transaction number, and returns False
\* when for one of them it failed on both endpoints.
C14_AsStated ==
    (call.fn = "send_production_data" /\ call.ret \in {"true", "false"}) =>
        LET all_posted ==
                PostedTransactions = Len(call.payload.transaction_numbers)
        IN  /\ call.ret = "true" => all_posted
            /\ ~all_posted => call.ret = "false"

-----------------------------------------------------------------------------
(* Properties of the folder loop (specification SpecPass).                 *)

NonEmpty(d) == DOMAIN d # {}

\* The pass is over and has taken up every folder its scan had found.
PassWentOn == pc = "idle" => processed = folders_for_processing

C16_ExceptionLeavesFolder ==
    /\ pc = "exception" => fs.folder = "staging" /\ Has(fs.staging, MetadataPath)
    /\ \A f \in Folders : root[f].outcome = "exception" => root[f].where = "staging"
    /\ PassWentOn

\* The first of two folders raised, the second was processed to its end and the
\* pass is over.
C16_Witness ==
    /\ pc = "idle"
    /\ Len(processed) = 2
    /\ root[processed[1]].outcome = "exception"
    /\ root[processed[2]].outcome = "done"

\* C17 as the specification states it: a folder whose pass ended in the
\* folder-level except is not among the folders that a later scan finds.
C17_AsStated ==
    \A f \in Folders :
        (root[f].outcome = "exception" /\ f \in Range(folders_for_processing)) =>
            f \in Range(processed)

\* C18: send_email is called at most once for a folder, never before the
\* post-pass, and once the report step is done it was called exactly when errors
\* or partial_successes is not empty, or successes is not empty and success
\* notifications are enabled.
C18_ReportDispatch ==
    /\ emails <= 1
    /\ pc \notin {"archive", "cleanup", "done"} => emails = 0
    /\ pc \in {"archive", "cleanup", "done"} =>
          (emails = 1 <=>
              \/ NonEmpty(metadata.errors)
              \/ NonEmpty(metadata.partial_successes)
              \/ NonEmpty(metadata.successes) /\ enable_success_notifications)

\* A folder with nothing but successes and the notifications disabled: no email.
C18_Witness ==
    /\ pc = "done"
    /\ emails = 0
    /\ NonEmpty(metadata.successes)
    /\ ~enable_success_notifications

\* metadata.json is where the cleanup is said to put it.
MetadataArchived ==
    /\ (NonEmpty(metadata.errors) \/ NonEmpty(metadata.partial_successes)) =>
          CopyIn(fs.error, MetadataPath)
    /\ NonEmpty(metadata.successes) => OriginalIn(fs.success, MetadataPath)
    /\ Has(fs.error, MetadataPath) \/ Has(fs.success, MetadataPath)

\* The folder has left the staging root: removed if nothing was left in it,
\* moved to residual_files otherwise.
FolderGone ==
    /\ ~Has(fs.staging, MetadataPath)
    /\ fs.folder = IF fs.staging = {} THEN "deleted" ELSE "residual"

\* A folder whose pass was completed is not in the staging root, and no later
\* scan finds it.
NeverAgain ==
    \A f \in Folders :
        root[f].outcome = "done" =>
            /\ root[f].where \in {"deleted", "residual"}
            /\ f \in Range(folders_for_processing) => f \in Range(processed)

-----------------------------------------------------------------------------
(* Properties of transfer_files (specification Spec).                      *)

\* C20 as the specification states it: the first file of the folder has neither
\* its source nor its JSON in the folder, so the transfer of the two paths to the
\* error folder creates and changes nothing.
C20_AsStated ==
    (pc = "loop" /\ idx = 2 /\ ~iter.had_source /\ ~iter.had_json) =>
        /\ fs.error = {} /\ fs.success = {}
        /\ fs.made = {}

-----------------------------------------------------------------------------
(* Properties of transfer_files (specification SpecTransfer).              *)

\* C21: transfer_files never raises on a permission or operating-system error:
\* whether the error comes from creating the destination or from the operation on
\* one path, the call does not end with an exception (the error is logged, the
\* other paths are attempted and the caller goes on with its next call).
C21_AsStated == pc # "raised"

-----------------------------------------------------------------------------
(* Properties of sanitize_pathname (specifications SpecSanitize and        *)
(* SpecSanitizeRuns).                                                      *)

\* The name the last call returned.
Returned == Last(returned)

\* C22: for every name that is not empty after cleaning and every set of existing
\* entries, sanitize_pathname terminates, and the name it returns does not exist
\* in the parent directory when it returns.
C22_TerminatesUnique ==
    /\ [](pc = "returned" => ~Exists(parent_path, Returned))
    /\ (pc = "exists") ~> (pc = "returned")

\* The loop has gone round twice before the first call returned.
C22_Witness ==
    /\ pc = "returned"
    /\ Len(returned) = 1
    /\ counter = 3
    /\ Returned \notin parent_path

\* C23: sanitize_pathname is idempotent on its own output: when the name n it
\* returned (which does not exist in the parent directory) is handed to it again
\* with the same is_file and max_length, it returns n unchanged.
C23_AsStated ==
    (pc = "returned" /\ Len(returned) = 2) => returned[2] = returned[1]

-----------------------------------------------------------------------------
(* Properties of the per-file steps for a document known on disk           *)
(* (specification SpecLoad).                                               *)

\* The OCR document in the JSON file of the listed file.
OnDisk == ocr[FileNames[1]]

\* The file has been loaded and is on its way through the lookups.
Loaded == pc \in {"transaction", "containers", "submit"}

HasCode(doc) == \E i \in DOMAIN doc.containers : doc.containers[i].container # <<>>

\* The file and its JSON were there when the iteration began.
WasRead == iter.had_source /\ iter.had_json

\* C24: once a document is loaded and its containers are filtered, no entry of its
\* containers list has an empty container code; a document without a bill of
\* lading, or without any container that has a code, never reaches the transaction
\* lookup, and its iteration ends in ERROR.
C24_FilteredAtLoad ==
    /\ Loaded => \A i \in DOMAIN json_data.containers :
                    json_data.containers[i].container # <<>>
    /\ pc = "transaction" => (OnDisk.bill_of_lading # <<>> /\ HasCode(OnDisk))
    /\ (AfterIteration /\ WasRead /\ ~(OnDisk.bill_of_lading # <<>> /\ HasCode(OnDisk)))
          => iter.outcome = "ERROR"

\* A document with a container without a code and a container with one, both
\* sealed, is at the transaction lookup with the second only.
C24_Witness ==
    /\ pc = "transaction"
    /\ \E i \in DOMAIN OnDisk.containers : OnDisk.containers[i].container = <<>>
    /\ \A i \in DOMAIN OnDisk.containers : OnDisk.containers[i].seals # <<>>
    /\ Len(json_data.containers) = 1
    /\ Len(OnDisk.containers) = 2

-----------------------------------------------------------------------------
(* Properties of the folder watcher (specification SpecWatcher).           *)

\* C25: at most one invocation of the callback of FolderWatcher.monitor is running
\* at any time, whatever the order of filesystem events, forced timeouts and ends
\* of the callback; the flag is_processing is set exactly while it runs.
C25_OneCallback ==
    /\ running <= 1
    /\ is_processing <=> running = 1

\* The callback is running while a new event has been recorded and the forced
\* timeout has passed again.
C25_Witness ==
    /\ running = 1
    /\ event_detected
    /\ last_event_time > current_time
    /\ clock - current_time >= forced_timeout

-----------------------------------------------------------------------------
(* Further properties of the pass (specification Spec).                    *)

\* The ERP numbers the comparison of lines 518-552 gives an OCR code: the numbers
\* of the lookups `log` that, stripped, are the code.
MatchOf(code, log) == {e \in ErpUnion(log) : e = code}

-----------------------------------------------------------------------------
(* Further properties of the per-file steps (specification SpecLoad).      *)

\* The containers of a document that have a container code.
Coded(doc) == SelectSeq(doc.containers, LAMBDA c : c.container # <<>>)

Sealed(c) == c.seals # <<>>

\* The document fails the structural validation: no bill of lading, no container
\* with a code, or no seals on any container that has a code.
FailsValidation(doc) ==
    \/ doc.bill_of_lading = <<>>
    \/ Coded(doc) = <<>>
    \/ \A i \in DOMAIN Coded(doc) : ~Sealed(Coded(doc)[i])

\* C27: a file that fails structural validation (source file missing, OCR JSON
\* missing, bill of lading empty, no container with a code, or every container
\* lacking seals) does not reach an ERP lookup or submit; with transfers not
\* blocked, its iteration ends in ERROR with exactly one error message and what
\* was there of the file pair is in the error folder.
C27_AsStated ==
    /\ Loaded => (WasRead /\ ~FailsValidation(OnDisk))
    /\ (AfterIteration /\ ~block_transfer /\ (~WasRead \/ FailsValidation(OnDisk))) =>
          /\ iter.outcome = "ERROR"
          /\ Len(Get(metadata.errors, iter.name)) = 1
          /\ \A p \in Pair(iter.name) :
                /\ ~Has(fs.staging, p)
                /\ (IF p.json THEN iter.had_json ELSE iter.had_source)
                      => OriginalIn(fs.error, p)

\* Some but not all containers of the document lack seals.
SomeUnsealed(doc) ==
    /\ \E i \in DOMAIN Coded(doc) : ~Sealed(Coded(doc)[i])
    /\ \E i \in DOMAIN Coded(doc) : Sealed(Coded(doc)[i])

\* C28: when some but not all containers of a document lack seals, the document
\* goes on to the transaction lookup with exactly the containers that have seals,
\* an error message about the missing seals is recorded and (transfers not being
\* blocked) the file pair is copied to the error folder and stays in the staged
\* folder; from then on every container of the document has a seal and the list
\* is not empty.
C28_AsStated ==
    /\ (pc = "transaction" /\ SomeUnsealed(OnDisk)) =>
          /\ json_data.containers = SelectSeq(Coded(OnDisk), Sealed)
          /\ Last(metadata.errors[iter.name]).kind = "seals missing for some containers"
          /\ ~block_transfer =>
                \A p \in Pair(iter.name) : CopyIn(fs.error, p) /\ Has(fs.staging, p)
    /\ Loaded =>
          /\ json_data.containers # <<>>
          /\ \A i \in DOMAIN json_data.containers : Sealed(json_data.containers[i])


\* The maps of metadata that have the filename as a key.
MapsHolding(f) ==
    {k \in {"errors", "partial_successes", "successes"} : f \in DOMAIN metadata[k]}

\* C29: the three maps of metadata being empty when the pass starts, after the
\* post-pass every filename of metadata.files is a key of exactly one of errors,
\* partial_successes and successes, and no other filename is a key of any of them.
C29_OneMapPerFile ==
    pc = "report" =>
       /\ \A f \in Range(metadata.files) : Cardinality(MapsHolding(f)) = 1
       /\ \A f \in Range(FileNames) \ Range(metadata.files) : MapsHolding(f) = {}

C29_Witness ==
    /\ pc = "report"
    /\ MapsHolding(FileNames[1]) = {"partial_successes"}
    /\ Kinds(metadata.partial_successes[FileNames[1]])
          = {"seals missing for some containers", "loaded"}


\* C30: the per-file JSON that ends in the success folder holds the containers
\* that were kept for submission and are listed in the success message, so a
\* container dropped because the ERP does not know its number is not in it.
C30_AsStated ==
    (/\ AfterIteration
     /\ iter.outcome = "SUCCESS"
     /\ OriginalIn(fs.success, JsonPath(iter.name))) =>
        Codes(OnDisk.containers) = Last(metadata.successes[iter.name]).containers

-----------------------------------------------------------------------------
(* Properties of repeated passes over a folder (specification SpecRepeat). *)

\* The step hands the data of the current file to send_production_data.
Submits == pc = "submit" /\ call'.fn = "send_production_data"

-----------------------------------------------------------------------------
(* Properties of the cache keys (specification SpecKeys).                  *)

\* The lookup that stored what the cache of the call `cl` holds under its key.
OriginOf(cl) == origin[<<cl.fn, KeyOf(cl)>>]

Stored(cl) == <<cl.fn, KeyOf(cl)>> \in DOMAIN origin

\* C32: a lookup that is answered from the cache gets the value that a lookup of
\* the same function name and the same argument list stored; and every cached
\* key was stored by a lookup of exactly one function name and argument list.
C32_SameRequest ==
    [][(lookups' = lookups + 1 /\ call'.hit) =>
          /\ Stored(call')
          /\ origin' = origin
          /\ OriginOf(call').function = call'.function
          /\ OriginOf(call').args = call'.args
          /\ OriginOf(call').result = call'.result]_vars

\* The transaction number of the bill of lading "1_" was looked up, and the
\* second lookup of it is answered from the cache.
C32_Witness ==
    /\ lookups = 2
    /\ call.hit
    /\ call.fn = "cup_http_request"
    /\ call.args = << <<"1", "_">> >>
    /\ call.result = List(<<T2>>)
    /\ Len(cache) = 1

-----------------------------------------------------------------------------
(* Properties of the submit calls (specification SpecCopy).                *)

\* C33: during and after a call of send_production_data, or of send_data_to_tsup
\* with its enrichment step, the caller's dict has the value it had when the call
\* was made: the same keys, transaction numbers, containers and container fields.
C33_CallerDataUnchanged ==
    ValueAt(heap, data_source) = passed

\* send_production_data has returned after it renamed the keys of its copy and
\* sent two transaction numbers; the caller's containers still have their seals.
C33_Witness ==
    /\ pc = "returned"
    /\ call.fn = "send_production_data"
    /\ local_data # data_source
    /\ "transaction_number" \in DOMAIN heap[local_data]
    /\ Len(passed["transaction_numbers"]) = 2
    /\ Len(ContainersAt(heap, local_data)) = 2
    /\ \A i \in DOMAIN ContainersAt(heap, local_data) :
          /\ seals_field \in DOMAIN heap[ContainersAt(heap, local_data)[i]]
          /\ "seals" \in DOMAIN heap[ContainersAt(heap, data_source)[i]]

------------------------------------------------------------------------------
(* Further properties of the folder watcher (specification SpecWatcher).   *)

\* A round of monitor starts the callback for an event: event_ready, lines 137-140
\* and 148-150 (timeout_ready needs the flag unset).
EventRun == pc = "sleep" /\ pc' = "callback" /\ event_detected

\* C34: a callback run that FolderWatcher starts for an event starts only when at
\* least event_delay seconds have passed since the most recent filesystem event
\* that on_any_event did not ignore.
C34_AsStated == [][EventRun => clock - event_time >= event_delay]_vars

\* A round of monitor that is not skipped (line 131) finds that forced_timeout
\* seconds have passed since the latest callback run.
TimeoutElapsed ==
    /\ MonitorWake
    /\ ~is_processing
    /\ clock - last_callback_time >= forced_timeout

\* C35: whenever forced_timeout seconds have passed since the last callback run,
\* FolderWatcher runs the callback, whether or not filesystem events have
\* occurred in the meantime.
C35_AsStated == [][TimeoutElapsed => pc' = "callback"]_vars

\* C36: an event that on_any_event did not ignore and that was delivered while
\* the callback was running is still pending when the callback has returned: the
\* flag event_detected is set, so that a later round of monitor runs the callback
\* for it.
C36_AsStated == [][(pc = "callback" /\ pc' = "sleep" /\ during) => event_detected']_vars

\* The conditions of lines 137-147 under which a round starts the callback.
Ready ==
    \/ event_detected /\ clock - last_event_time >= event_delay
    \/ ~event_detected /\ clock - last_callback_time >= forced_timeout

\* C37: an exception raised by the callback does not stop the loop of monitor: the
\* error is logged, is_processing is reset (it is set only while a callback is
\* executing), the loop is at its sleep again, and a later round whose event or
\* timeout condition holds starts the callback.
C37_LoopGoesOn ==
    /\ [](is_processing <=> pc = "callback")
    /\ []((callback_error /\ pc # "callback") => pc = "sleep")
    /\ [][(pc = "callback" /\ pc' # "callback") => (pc' = "sleep" /\ ~is_processing')]_vars
    /\ [][(callback_error /\ MonitorWake /\ Ready) => pc' = "callback"]_vars

\* After a callback run that raised, a round has started the callback again for
\* an event that has settled.
C37_Witness ==
    /\ callback_error
    /\ pc = "callback"
    /\ is_processing
    /\ event_detected
    /\ observer_pc = "idle"
    /\ current_time - last_event_time >= event_delay
    /\ current_time > last_callback_time

------------------------------------------------------------------------------
(* Properties of send_email (specification SpecEmailRuns).                 *)

\* The recipients given hold an address: a string with a character that is not
\* a separator, or a list with an element that is not blank.
HasRecipient(given) ==
    \/ /\ given.kind = "str"
       /\ \E i \in DOMAIN given.v[1] : given.v[1][i] \notin Separators
    \/ /\ given.kind = "list"
       /\ \E i \in DOMAIN given.v : \E j \in DOMAIN given.v[i] :
             given.v[i][j] \notin Whitespace

\* The attempts after which send_email makes no other.
Final == {"sent", "SMTPAuthenticationError"}

\* C38: send_email makes at most max_retries SMTP attempts; an attempt that sent
\* the message or met an authentication error is the last one and the call has
\* returned; after any other failure the call returns only when max_retries
\* attempts are made; without a valid recipient or with the notifications
\* switched off no attempt is made; and the call always returns.
C38_RetryLoop ==
    /\ [](Len(smtp_log) <= max_retries)
    /\ [](\A i \in DOMAIN smtp_log :
             smtp_log[i] \in Final => (i = Len(smtp_log) /\ email_pc = "returned"))
    /\ []((email_pc = "returned" /\ smtp_log # <<>> /\ Last(smtp_log) \notin Final)
             => Len(smtp_log) = max_retries)
    /\ []((email_pc = "returned" /\ smtp_log = <<>>)
             => (~HasRecipient(recipient_emails) \/ ~enable_email_notification
                 \/ max_retries < 1))
    /\ []((~HasRecipient(recipient_emails) \/ ~enable_email_notification)
             => smtp_log = <<>>)
    /\ <>(email_pc = "returned")

\* The call has returned after an authentication error at the second attempt,
\* with a third attempt allowed.
C38_Witness ==
    /\ email_pc = "returned"
    /\ Len(smtp_log) = 2
    /\ smtp_log[1] \notin Final
    /\ smtp_log[2] = "SMTPAuthenticationError"
    /\ max_retries > 2

------------------------------------------------------------------------------
(* Properties of the email monitor (specification SpecMonitorRuns).        *)

\* C39: for every interleaving of stop with the loop of monitor, once stop has
\* returned the loop of monitor ends; when it has ended no IMAP connection is held
\* (server is None); and after the return of stop monitor neither connects again
\* nor searches the inbox.
C39_AsStated ==
    /\ (stop_pc = "returned") ~> (monitor_pc = "ended")
    /\ []((stop_pc = "returned" /\ monitor_pc = "ended") => server = "None")
    /\ [](after_stop = {})

=============================================================================
